---- MODULE Spec2Model ----
(***************************************************************************)
(* Model of the bugzilla plugin (prow/plugins/bugzilla/bugzilla.go).       *)
(*                                                                         *)
(* A webhook delivery is digested into an event (digestPR, digestComment); *)
(* handle / handleMerge then run as a sequence of external calls against   *)
(* the review host (GitHub) and the tracker (Bugzilla).  Every external    *)
(* call is one action of the model: it performs the call, which may fail,  *)
(* and the handler's local computation up to the next call.  pc names the  *)
(* call the handler is about to make.                                      *)
(*                                                                         *)
(* State the plugin writes persists between runs (the pull request's       *)
(* labels, the bug's status in the tracker).  State it only reads (the     *)
(* rest of the bug, the linked pull requests, the directory) belongs to    *)
(* the external systems and is drawn when the call returns.                *)
(***************************************************************************)
EXTENDS Integers, Sequences, FiniteSets, TLC

\* ------------------------------------------------------------------ bounds
\* Longest DependsOn list a bug carries.
MaxDeps == 2
\* Longest list of external links GetExternalBugPRsOnBug returns.
MaxLinks == 2
\* Most users the directory query returns.
MaxUsers == 2

\* ------------------------------------------------------------- vocabulary
\* Optional values (Go pointers): Nil, or Ptr(v) holding v.
Nil == << >>
Ptr(v) == <<v>>
Deref(p) == p[1]

\* labels.ValidBug and labels.InvalidBug
ValidBug == "bugzilla/valid-bug"
InvalidBug == "bugzilla/invalid-bug"

\* The pull request the deliveries are about, and the other pull requests
\* that may be linked to the bug (an ExternalBug{Org, Repo, Num} each).
ThisPR == 1
OtherPRs == {2, 3}

\* Title text, as tokens.  A title is a sequence of tokens; a run of digits
\* is one token.
BugWords == {"Bug ", "bug "}
DigitTokens == {"0", "1", "01", "99999999999999999999"}
Colon == ":"

\* titleMatch = (?i)^.*?Bug ([0-9]+):  -- the lazy prefix lets the pattern
\* start at the first place where "Bug <digits>:" stands; the submatch is the
\* digit run, Nil when nothing matches.
MatchAt(title, i) ==
    /\ i + 2 <= Len(title)
    /\ title[i] \in BugWords
    /\ title[i + 1] \in DigitTokens
    /\ title[i + 2] = Colon

\* A variant of titleMatch whose pattern must stand at the start.
titleMatchAnchored(title) ==
    IF MatchAt(title, 1) THEN Ptr(title[2]) ELSE Nil

titleMatch(title) ==
    LET hits == {i \in 1..Len(title) : MatchAt(title, i)}
    IN  IF hits = {} THEN Nil
        ELSE Ptr(title[(CHOOSE i \in hits : \A j \in hits : i <= j) + 1])

\* strconv.Atoi: the value of a digit run, or an error when it is out of
\* range for an int.
Atoi(digits) ==
    CASE digits = "0" -> [val |-> 0, err |-> FALSE]
      [] digits = "1" -> [val |-> 1, err |-> FALSE]
      [] digits = "01" -> [val |-> 1, err |-> FALSE]
      [] OTHER -> [val |-> 0, err |-> TRUE]

\* refreshCommandMatch and qaCommandMatch are (?mi)^/bugzilla refresh\s*$
\* and (?mi)^/bugzilla assign-qa\s*$ : some line of the body is the
\* command, in any case, trailing blanks allowed.
RefreshLines == {"/bugzilla refresh", "/BUGZILLA REFRESH "}
QALines == {"/bugzilla assign-qa", "/Bugzilla Assign-QA"}
refreshCommandMatchAnywhere(body) ==
    \E i \in 1..Len(body) : body[i] \in RefreshLines \cup {"please /bugzilla refresh"}
refreshCommandMatch(body) == \E i \in 1..Len(body) : body[i] \in RefreshLines
qaCommandMatch(body) == \E i \in 1..Len(body) : body[i] \in QALines

\* ------------------------------------------------------------------ event
\* type event struct: the fields handle reads.
Event(number, bugId, missing, merged, state, body, assign) ==
    [number |-> number, bugId |-> bugId, missing |-> missing,
     merged |-> merged, state |-> state, body |-> body, assign |-> assign]

\* What a digest returns: (*event, error).
Digest(ev, err) == [ev |-> ev, err |-> err]

\* Variants of ActsOn, Intermediate and NotChanged: one that acts on every
\* close, one that keeps the event whatever the flag, one that never takes
\* the reference for unchanged.
ActsOnEveryClose(pre) ==
    pre.Action \in {"opened", "reopened", "edited", "closed"}
IntermediateAlways(e, validateByDefault) == Ptr(e)
NotChangedNever(prevId, e) == FALSE

\* digestPR, lines 201-204: the actions after which the title may have
\* changed or the pull request merged.
ActsOn(pre) ==
    ~(/\ pre.Action # "opened"
      /\ pre.Action # "reopened"
      /\ pre.Action # "edited"
      /\ ~(pre.Action = "closed" /\ pre.Merged))

\* digestPR, lines 237-241: the event returned when the previous title
\* cannot be told.
Intermediate(e, validateByDefault) ==
    IF ~e.missing \/ (validateByDefault # Nil /\ Deref(validateByDefault))
    THEN Ptr(e) ELSE Nil

\* digestPR, line 265: the referenced bug has not changed in the update.
NotChanged(prevId, e) == prevId = e.bugId

\* digestPR: pre = [Action, Merged, State, Title, Changes], where Changes is
\* [ok, from]: ok is whether json.Unmarshal(pre.Changes) succeeds and from
\* is changes.Title.From (the empty title when absent).
digestPR(pre, validateByDefault) ==
    IF ~ActsOn(pre)
    THEN Digest(Nil, FALSE)
    ELSE
    LET mat == titleMatch(pre.Title)
        parsed == IF mat = Nil THEN [val |-> 0, err |-> FALSE] ELSE Atoi(Deref(mat))
        e == Event(ThisPR, parsed.val, mat = Nil, pre.Merged, pre.State, pre.Title, FALSE)
        intermediate == Intermediate(e, validateByDefault)
        prevMat == titleMatch(pre.Changes.from)
        prev == IF prevMat = Nil THEN [val |-> 0, err |-> FALSE] ELSE Atoi(Deref(prevMat))
    IN  IF parsed.err THEN Digest(Nil, TRUE)
        ELSE IF ~pre.Changes.ok THEN Digest(intermediate, FALSE)
        ELSE IF prevMat = Nil THEN Digest(intermediate, FALSE)
        ELSE IF prev.err THEN Digest(intermediate, FALSE)
        ELSE IF NotChanged(prev.val, e) THEN Digest(Nil, FALSE)
        ELSE Digest(Ptr(e), FALSE)

\* A variant of digestComment that yields no event when the title
\* references no bug.
digestCommentDropsMissing(c, pull) ==
    LET assign == ~refreshCommandMatch(c.Body)
        mat == titleMatch(pull.Title)
        parsed == IF mat = Nil THEN [val |-> 0, err |-> FALSE] ELSE Atoi(Deref(mat))
        ev == Event(ThisPR, parsed.val, mat = Nil, pull.Merged, pull.State, c.Body, assign)
    IN  IF mat = Nil THEN Digest(Nil, FALSE)
        ELSE IF parsed.err THEN Digest(Nil, TRUE)
        ELSE Digest(Ptr(ev), FALSE)

\* digestComment, lines 309-324: the event built from the comment event c
\* and the pull request fetched for it.
digestComment(c, pull) ==
    LET assign == ~refreshCommandMatch(c.Body)
        mat == titleMatch(pull.Title)
        parsed == IF mat = Nil THEN [val |-> 0, err |-> FALSE] ELSE Atoi(Deref(mat))
        ev == Event(ThisPR, parsed.val, mat = Nil, pull.Merged, pull.State, c.Body, assign)
    IN  IF mat = Nil THEN Digest(Ptr(ev), FALSE)
        ELSE IF parsed.err THEN Digest(Nil, TRUE)
        ELSE Digest(Ptr(ev), FALSE)

\* -------------------------------------------------------------- validator
\* plugins.BugzillaBugState{Status, Resolution}; an empty field is unset.
BugState(status, resolution) == [Status |-> status, Resolution |-> resolution]

\* (*BugzillaBugState).Matches: every field the state sets equals the bug's.
Matches(state, bug) ==
    /\ (state.Status # "" => state.Status = bug.Status)
    /\ (state.Resolution # "" => state.Resolution = bug.Resolution)

\* (*BugzillaBugState).AsBugUpdate: the fields to write, Nil when the state
\* is unset or the bug already has them.
AsBugUpdate(state, bug) ==
    IF state = Nil THEN Nil
    ELSE LET s == Deref(state)
             status == IF s.Status # "" /\ (bug = Nil \/ s.Status # Deref(bug).Status)
                       THEN s.Status ELSE ""
             resolution == IF s.Resolution # "" /\ (bug = Nil \/ s.Resolution # Deref(bug).Resolution)
                           THEN s.Resolution ELSE ""
         IN  IF status = "" /\ resolution = "" THEN Nil
             ELSE Ptr(BugState(status, resolution))

bugMatchesStates(bug, states) ==
    \E i \in 1..Len(states) : Matches(states[i], bug)

\* One entry of validateBug's validations or errors list.
Entry(check, id, why) == [check |-> check, bug |-> id, why |-> why]

\* Variants of the checks: a status check that knows the listed states
\* only, a target-release check that lets a mismatch pass, and a check of
\* the dependents' presence that passes when there is none.
AllowedStatesListedOnly(options) ==
    IF options.ValidStates # Nil THEN Deref(options.ValidStates) ELSE << >>
TargetReleaseCheckLenient(bug, options) ==
    IF options.TargetRelease = Nil THEN << >>
    ELSE IF Len(bug.TargetRelease) = 0
    THEN <<[ok |-> FALSE, entry |-> Entry("targetRelease", bug.ID, "unset")]>>
    ELSE <<[ok |-> TRUE, entry |-> Entry("targetRelease", bug.ID, "match")]>>
TargetReleaseCheckAnyEntry(bug, options) ==
    IF options.TargetRelease = Nil THEN << >>
    ELSE IF Len(bug.TargetRelease) = 0
    THEN <<[ok |-> FALSE, entry |-> Entry("targetRelease", bug.ID, "unset")]>>
    ELSE IF \A i \in 1..Len(bug.TargetRelease) : Deref(options.TargetRelease) # bug.TargetRelease[i]
    THEN <<[ok |-> FALSE, entry |-> Entry("targetRelease", bug.ID, "mismatch")]>>
    ELSE <<[ok |-> TRUE, entry |-> Entry("targetRelease", bug.ID, "match")]>>
DependentsPresentCheckSilent(bug, dependents, options) ==
    IF Len(dependents) = 0
    THEN IF options.DependentBugStates # Nil /\ options.DependentBugTargetRelease # Nil
         THEN <<[ok |-> FALSE, entry |-> Entry("noDependents", bug.ID, "release and states")]>>
         ELSE IF options.DependentBugStates # Nil
         THEN <<[ok |-> FALSE, entry |-> Entry("noDependents", bug.ID, "states")]>>
         ELSE IF options.DependentBugTargetRelease # Nil
         THEN <<[ok |-> FALSE, entry |-> Entry("noDependents", bug.ID, "release")]>>
         ELSE << >>
    ELSE << >>
DependentsPresentCheckVacuous(bug, dependents, options) ==
    IF Len(dependents) = 0 THEN << >>
    ELSE <<[ok |-> TRUE, entry |-> Entry("hasDependents", bug.ID, "match")]>>

\* The allowed states of the status check: ValidStates and, when set,
\* StateAfterValidation.
AllowedStates(options) ==
    (IF options.ValidStates # Nil THEN Deref(options.ValidStates) ELSE << >>)
    \o (IF options.StateAfterValidation # Nil THEN <<Deref(options.StateAfterValidation)>> ELSE << >>)

\* The checks of validateBug in the order the code runs them; each yields
\* the entries it appends, ok telling validations (TRUE) from errors.
OpenCheck(bug, options) ==
    IF options.IsOpen # Nil /\ Deref(options.IsOpen) # bug.IsOpen
    THEN <<[ok |-> FALSE, entry |-> Entry("open", bug.ID, "mismatch")]>>
    ELSE IF options.IsOpen # Nil
    THEN <<[ok |-> TRUE, entry |-> Entry("open", bug.ID, "match")]>>
    ELSE << >>

TargetReleaseCheck(bug, options) ==
    IF options.TargetRelease = Nil THEN << >>
    ELSE IF Len(bug.TargetRelease) = 0
    THEN <<[ok |-> FALSE, entry |-> Entry("targetRelease", bug.ID, "unset")]>>
    ELSE IF Deref(options.TargetRelease) # bug.TargetRelease[1]
    THEN <<[ok |-> FALSE, entry |-> Entry("targetRelease", bug.ID, "mismatch")]>>
    ELSE <<[ok |-> TRUE, entry |-> Entry("targetRelease", bug.ID, "match")]>>

StatesCheck(bug, options) ==
    IF options.ValidStates = Nil THEN << >>
    ELSE IF ~bugMatchesStates(bug, AllowedStates(options))
    THEN <<[ok |-> FALSE, entry |-> Entry("state", bug.ID, "mismatch")]>>
    ELSE <<[ok |-> TRUE, entry |-> Entry("state", bug.ID, "match")]>>

\* A variant of DependentStatesCheck that takes the first dependent's
\* outcome for every dependent.
DependentStatesCheckFirstOnly(dependents, options) ==
    IF options.DependentBugStates = Nil THEN << >>
    ELSE [i \in 1..Len(dependents) |->
            IF ~bugMatchesStates(dependents[1], Deref(options.DependentBugStates))
            THEN [ok |-> FALSE, entry |-> Entry("dependentState", dependents[i].ID, "mismatch")]
            ELSE [ok |-> TRUE, entry |-> Entry("dependentState", dependents[i].ID, "match")]]

DependentStatesCheck(dependents, options) ==
    IF options.DependentBugStates = Nil THEN << >>
    ELSE [i \in 1..Len(dependents) |->
            IF ~bugMatchesStates(dependents[i], Deref(options.DependentBugStates))
            THEN [ok |-> FALSE, entry |-> Entry("dependentState", dependents[i].ID, "mismatch")]
            ELSE [ok |-> TRUE, entry |-> Entry("dependentState", dependents[i].ID, "match")]]

DependentTargetReleaseCheck(dependents, options) ==
    IF options.DependentBugTargetRelease = Nil THEN << >>
    ELSE [i \in 1..Len(dependents) |->
            IF Len(dependents[i].TargetRelease) = 0
            THEN [ok |-> FALSE, entry |-> Entry("dependentTargetRelease", dependents[i].ID, "unset")]
            ELSE IF Deref(options.DependentBugTargetRelease) # dependents[i].TargetRelease[1]
            THEN [ok |-> FALSE, entry |-> Entry("dependentTargetRelease", dependents[i].ID, "mismatch")]
            ELSE [ok |-> TRUE, entry |-> Entry("dependentTargetRelease", dependents[i].ID, "match")]]

DependentsPresentCheck(bug, dependents, options) ==
    IF Len(dependents) = 0
    THEN IF options.DependentBugStates # Nil /\ options.DependentBugTargetRelease # Nil
         THEN <<[ok |-> FALSE, entry |-> Entry("noDependents", bug.ID, "release and states")]>>
         ELSE IF options.DependentBugStates # Nil
         THEN <<[ok |-> FALSE, entry |-> Entry("noDependents", bug.ID, "states")]>>
         ELSE IF options.DependentBugTargetRelease # Nil
         THEN <<[ok |-> FALSE, entry |-> Entry("noDependents", bug.ID, "release")]>>
         ELSE << >>
    ELSE <<[ok |-> TRUE, entry |-> Entry("hasDependents", bug.ID, "match")]>>

Entries(results) == [i \in 1..Len(results) |-> results[i].entry]
IsOk(r) == r.ok
IsNotOk(r) == ~r.ok

\* A variant of validateBug that returns at the first check that fails.
validateBugShortCircuit(bug, dependents, options) ==
    LET results == OpenCheck(bug, options)
                   \o TargetReleaseCheck(bug, options)
                   \o StatesCheck(bug, options)
                   \o DependentStatesCheck(dependents, options)
                   \o DependentTargetReleaseCheck(dependents, options)
                   \o DependentsPresentCheck(bug, dependents, options)
        failed == {i \in 1..Len(results) : ~results[i].ok}
        upto == IF failed = {} THEN Len(results)
                ELSE CHOOSE i \in failed : \A j \in failed : i <= j
        run == SubSeq(results, 1, upto)
    IN  [valid |-> failed = {},
         validations |-> Entries(SelectSeq(run, IsOk)),
         errors |-> Entries(SelectSeq(run, IsNotOk))]

\* validateBug: (valid, validations, errors).  valid starts TRUE and every
\* branch that appends an error clears it.
validateBug(bug, dependents, options) ==
    LET results == OpenCheck(bug, options)
                   \o TargetReleaseCheck(bug, options)
                   \o StatesCheck(bug, options)
                   \o DependentStatesCheck(dependents, options)
                   \o DependentTargetReleaseCheck(dependents, options)
                   \o DependentsPresentCheck(bug, dependents, options)
    IN  [valid |-> \A i \in 1..Len(results) : results[i].ok,
         validations |-> Entries(SelectSeq(results, IsOk)),
         errors |-> Entries(SelectSeq(results, IsNotOk))]

\* A variant of processQuery that assigns the first of several users.
processQueryFirst(users) ==
    IF Len(users) = 0 THEN [kind |-> "noUser", assign |-> Nil]
    ELSE [kind |-> "assign", assign |-> Ptr(users[1])]

\* processQuery: the reply for the users the directory query found.
processQuery(users) ==
    IF Len(users) = 0 THEN [kind |-> "noUser", assign |-> Nil]
    ELSE IF Len(users) = 1 THEN [kind |-> "assign", assign |-> Ptr(users[1])]
    ELSE [kind |-> "multipleUsers", assign |-> Nil]

\* ----------------------------------------------------- inputs of the runs
\* The states a bug takes in the tracker.
New == BugState("NEW", "")
Post == BugState("POST", "")
Modified == BugState("MODIFIED", "")
ClosedErrata == BugState("CLOSED", "ERRATA")
TrackerStates == {New, Post, Modified}

\* plugins.BugzillaBranchOptions: the policies the deliveries run under.
\* ValidateByDefault is read by digestPR alone, so the policies that set it
\* set nothing else.  The bugs of the deliveries carry no target release, so
\* a required target release of the dependents comes alone or with the
\* required states of the dependents.
Unconfigured ==
    [IsOpen |-> Nil, TargetRelease |-> Nil, ValidStates |-> Nil,
     DependentBugStates |-> Nil, DependentBugTargetRelease |-> Nil,
     StateAfterValidation |-> Nil, StateAfterMerge |-> Nil,
     AddExternalLink |-> Nil, ValidateByDefault |-> Nil]
Options ==
    [IsOpen : {Nil, Ptr(TRUE)},
     TargetRelease : {Nil},
     ValidStates : {Nil, Ptr(<<New>>)},
     DependentBugStates : {Nil, Ptr(<<ClosedErrata>>)},
     DependentBugTargetRelease : {Nil},
     StateAfterValidation : {Nil, Ptr(Post)},
     StateAfterMerge : {Nil, Ptr(Modified)},
     AddExternalLink : {Nil, Ptr(TRUE)},
     ValidateByDefault : {Nil}]
    \cup {[Unconfigured EXCEPT !.ValidateByDefault = Ptr(v)] : v \in BOOLEAN}
    \cup {[Unconfigured EXCEPT !.DependentBugTargetRelease = Ptr("4.1"),
                               !.DependentBugStates = depStates] :
            depStates \in {Nil, Ptr(<<ClosedErrata>>)}}

\* Bug ids: the pull request's titles reference bug 1 (or 0); the bug's
\* dependencies are the bugs 2 .. MaxDeps + 1.
DependsOnLists == {[i \in 1..n |-> i + 1] : n \in 0..MaxDeps}

\* bugzilla.Bug as GetBug returns it; Status and Resolution are the
\* tracker's, the other fields are read-only inputs.
QAContacts == {Nil, Ptr([Email |-> ""]), Ptr([Email |-> "qa@example.com"])}
Bug(id, isOpen, state, dependsOn, qa) ==
    [ID |-> id, IsOpen |-> isOpen, Status |-> state.Status, Resolution |-> state.Resolution,
     TargetRelease |-> << >>, DependsOn |-> dependsOn, QAContactDetail |-> qa]
DependentStates == {ClosedErrata, New}

\* Titles of the pull request, and the previous titles an edit carries.
NoBugTitle == <<"fix">>
Titles == {NoBugTitle,
           <<"Bug ", "1", ":", "fix">>,
           <<"Bug ", "99999999999999999999", ":">>}
PrevTitles == Titles \cup {<<"Bug ", "0", ":">>, <<"bug ", "01", ":">>, << >>}

\* Merged and State of a pull request as the review host reports them.
PRStates == {[Merged |-> FALSE, State |-> "open"],
             [Merged |-> FALSE, State |-> "closed"],
             [Merged |-> TRUE, State |-> "closed"]}

\* The pull request of the deliveries is open, or closed by its merge; it
\* is closed without a merge only in the event that tells so.
OwnPRStates == {st \in PRStates : st.Merged = (st.State = "closed")}

\* What the review host delivers: a pull request is open when opened or
\* reopened and closed when closed; changes come with an edit alone, and
\* changes that do not decode carry no previous title.
Delivered(event) ==
    /\ [Merged |-> event.Merged, State |-> event.State] \in PRStates
    /\ event.Action \in {"opened", "reopened"} => event.State = "open"
    /\ event.Action = "closed" => event.State = "closed"
    /\ event.Changes.ok => event.Action = "edited"
    /\ ~event.Changes.ok => event.Changes.from = << >>

\* github.PullRequestEvent, as digestPR reads it.
PullRequestEvents ==
    {event \in [Action : {"opened", "reopened", "edited", "closed", "labeled"},
                Merged : BOOLEAN, State : {"open", "closed"}, Title : Titles,
                Changes : [ok : BOOLEAN, from : PrevTitles]] :
        /\ Delivered(event)
        /\ event.Action # "closed" => event.Merged = (event.State = "closed")}

\* Comment bodies, as lines.
Bodies == {<<"/bugzilla refresh">>, <<"/bugzilla assign-qa">>, <<"please /bugzilla refresh">>,
           <<"/Bugzilla Assign-QA", "/BUGZILLA REFRESH ">>}

\* github.GenericCommentEvent, as digestComment reads it.
GenericCommentEvents ==
    [Action : {"created", "edited"}, Body : Bodies, IsPR : BOOLEAN]

\* The lists GetExternalBugPRsOnBug returns: distinct pull requests.
RECURSIVE LinkListsOfLen(_)
LinkListsOfLen(n) ==
    IF n = 0 THEN {<< >>}
    ELSE {Append(l, p) : l \in LinkListsOfLen(n - 1), p \in {ThisPR} \cup OtherPRs}
LinkLists ==
    {l \in UNION {LinkListsOfLen(n) : n \in 0..MaxLinks} :
        \A i, j \in 1..Len(l) : i # j => l[i] # l[j]}

\* The logins the directory query returns.
Logins == {"alice", "bob"}
UserLists == UNION {[1..n -> Logins] : n \in 0..MaxUsers}

\* ------------------------------------------------------------------ state
VARIABLES
    labels,             \* the valid/invalid bug labels on the pull request
    tracker,            \* the referenced bug's state in the tracker
    prev,               \* the label reconciliation of the run before this one
    pc,                 \* the external call the handler is about to make
    options,            \* the policy in force
    pre,                \* digestPR: the pull request event digested
    gce,                \* digestComment: the comment event being digested
    pr,                 \* digestComment: the pull request fetched
    e,                  \* the event handle runs on
    bug,                \* handle: the bug fetched
    dependents,         \* handle: the dependent bugs fetched so far
    verdict,            \* handle: what validateBug returned
    needsValidLabel, needsInvalidLabel,
    hasValidLabel, hasInvalidLabel,
    response,           \* the body of the comment to post
    pulls,              \* the linked pull requests on the review host
    prs,                \* handleMerge: the external links of the bug
    mergedPRs,          \* handleMerge: the links found merged
    unmergedPrStates,   \* handleMerge: the links found unmerged
    calls,              \* the external calls of the run, in order
    ret,                \* what the handler returned
    linked,             \* tracker: the pull requests linked to the bug
    mergedOnHost,       \* review host: the pull requests that are merged
    pending,            \* the merge events delivered and not handled yet
    runs,               \* the handleMerge run of each pull request
    issued,             \* history: UpdateBug calls with the post-merge state
    applied,            \* history: one of them succeeded
    callFailed          \* history: an external call failed

vars == <<labels, tracker, prev, pc, options, pre, gce, pr, e, bug, dependents, verdict,
          needsValidLabel, needsInvalidLabel, hasValidLabel, hasInvalidLabel,
          response, pulls, prs, mergedPRs, unmergedPrStates, calls, ret,
          linked, mergedOnHost, pending, runs, issued, applied, callFailed>>

world == <<labels, tracker>>
digestVars == <<pre, gce, pr>>
labelVars == <<needsValidLabel, needsInvalidLabel, hasValidLabel, hasInvalidLabel>>
mergeVars == <<pulls, prs, mergedPRs, unmergedPrStates>>
merges == <<linked, mergedOnHost, pending, runs, issued, applied, callFailed>>

\* One external call: its name, its argument, whether it succeeded.
Call(name, arg, ok) == [call |-> name, arg |-> arg, ok |-> ok]

\* A comment body: which message it is and what it reports.
NoResponse ==
    [kind |-> "", action |-> "", moved |-> FALSE,
     validations |-> << >>, errors |-> << >>, qa |-> "", assign |-> Nil,
     related |-> Nil, merged |-> << >>, unmerged |-> {}]
Response(kind) == [NoResponse EXCEPT !.kind = kind]
\* formatError(action, ...)
formatError(action) == [NoResponse EXCEPT !.kind = "error", !.action = action]

\* The states of the other pull requests on the review host; they are read
\* by handleMerge alone and are drawn when it lists the bug's links.
Pulls == [OtherPRs -> PRStates]
NoPulls == [p \in OtherPRs |-> [Merged |-> FALSE, State |-> "open"]]
PullsOf(links) ==
    {hosted \in Pulls :
        \A p \in OtherPRs :
            (\A i \in 1..Len(links) : links[i] # p) => hosted[p] = NoPulls[p]}

\* No merge of a linked pull request is followed.
NoMerges ==
    /\ linked = << >>
    /\ mergedOnHost = {}
    /\ pending = {}
    /\ runs = << >>
    /\ issued = 0
    /\ applied = FALSE
    /\ callFailed = FALSE

\* No handler is running and none has run: handle's locals are unset.
NoRun ==
    /\ pc = "idle"
    /\ pre = Nil
    /\ gce = Nil
    /\ pr = Nil
    /\ pulls = NoPulls
    /\ e = Nil
    /\ bug = Nil
    /\ dependents = << >>
    /\ verdict = Nil
    /\ needsValidLabel = FALSE
    /\ needsInvalidLabel = FALSE
    /\ hasValidLabel = FALSE
    /\ hasInvalidLabel = FALSE
    /\ response = NoResponse
    /\ prs = << >>
    /\ mergedPRs = << >>
    /\ unmergedPrStates = {}
    /\ calls = << >>
    /\ ret = "none"

Init ==
    /\ labels \in SUBSET {ValidBug, InvalidBug}
    /\ tracker \in TrackerStates
    /\ options \in Options
    /\ prev = Nil
    /\ NoRun
    /\ NoMerges

\* The handler returns r.
Return(r) ==
    /\ pc' = "done"
    /\ ret' = r

\* A variant of ReturnComment that reconciles the labels before the
\* comment.
ReturnCommentAfterLabels(body) ==
    /\ pc' = "GetIssueLabels"
    /\ response' = body
    /\ ret' = ret

\* return comment(body): the handler's next call is CreateComment.
ReturnComment(body) ==
    /\ pc' = "CreateComment"
    /\ response' = body
    /\ ret' = ret

Log(name, arg, ok) == calls' = Append(calls, Call(name, arg, ok))

\* ----------------------------------------------------------------- handle
\* A variant of QAStage that queries the directory for an empty email.
QAStageQueriesEmptyEmail(resp, b) ==
    IF ~Deref(e).assign THEN [pc |-> "GetIssueLabels", response |-> resp]
    ELSE IF b.QAContactDetail = Nil
    THEN [pc |-> "GetIssueLabels", response |-> [resp EXCEPT !.qa = "noContact"]]
    ELSE [pc |-> "Query", response |-> resp]

\* handle, lines 461-479: the QA contact lookup, when asked for.  Yields the
\* next call and the response so far.
QAStage(resp, b) ==
    IF ~Deref(e).assign THEN [pc |-> "GetIssueLabels", response |-> resp]
    ELSE IF b.QAContactDetail = Nil
    THEN [pc |-> "GetIssueLabels", response |-> [resp EXCEPT !.qa = "noContact"]]
    ELSE IF Deref(b.QAContactDetail).Email = ""
    THEN [pc |-> "GetIssueLabels", response |-> [resp EXCEPT !.qa = "noEmail"]]
    ELSE [pc |-> "Query", response |-> resp]

\* A variant of LinkStage that updates the bug again while the bug it
\* fetched is not in the state after validation.
LinkStageUpdatesAgain(resp, b) ==
    IF AsBugUpdate(options.StateAfterValidation, Ptr(b)) # Nil
    THEN [pc |-> "UpdateBug", response |-> resp]
    ELSE IF options.AddExternalLink # Nil /\ Deref(options.AddExternalLink)
    THEN [pc |-> "AddPullRequestAsExternalBug", response |-> resp]
    ELSE QAStage(resp, b)

\* handle, lines 438-447: link the pull request when configured.
LinkStage(resp, b) ==
    IF options.AddExternalLink # Nil /\ Deref(options.AddExternalLink)
    THEN [pc |-> "AddPullRequestAsExternalBug", response |-> resp]
    ELSE QAStage(resp, b)

\* handle, lines 431-437: move the bug to StateAfterValidation when
\* configured.
UpdateStage(resp, b) ==
    IF AsBugUpdate(options.StateAfterValidation, Ptr(b)) # Nil
    THEN [pc |-> "UpdateBug", response |-> resp]
    ELSE LinkStage(resp, b)

\* handle's locals bug and dependents are last read before the label stage
\* (line 495); the model drops them there.
KeepBug(b) == bug' = IF pc' = "GetIssueLabels" THEN Nil ELSE Ptr(b)

\* A variant of Validate that goes on to the update and the link for an
\* invalid bug too.
ValidateMovesInvalid(b, deps) ==
    LET v == validateBug(b, deps, options)
        next == UpdateStage([Response(IF v.valid THEN "valid" ELSE "invalid")
                                EXCEPT !.validations = v.validations, !.errors = v.errors], b)
    IN  /\ verdict' = Ptr(v)
        /\ needsValidLabel' = v.valid
        /\ needsInvalidLabel' = ~v.valid
        /\ pc' = next.pc
        /\ response' = next.response
        /\ ret' = ret
        /\ dependents' = << >>
        /\ KeepBug(b)

\* handle, lines 425-489: validate the bug and compose the response.
Validate(b, deps) ==
    LET v == validateBug(b, deps, options)
        next == UpdateStage([Response("valid") EXCEPT !.validations = v.validations], b)
    IN  /\ verdict' = Ptr(v)
        /\ needsValidLabel' = v.valid
        /\ needsInvalidLabel' = ~v.valid
        /\ IF v.valid
           THEN /\ pc' = next.pc
                /\ response' = next.response
           ELSE /\ pc' = "GetIssueLabels"
                /\ response' = [Response("invalid") EXCEPT !.errors = v.errors]
        /\ ret' = ret
        /\ dependents' = << >>
        /\ KeepBug(b)

\* handleMerge's loop over prs, lines 696-724, while the link to classify is
\* the event's own pull request, which needs no fetch.
RECURSIVE OwnLinks(_, _, _)
OwnLinks(links, merged, ev) ==
    IF Len(merged) < Len(links) /\ links[Len(merged) + 1] = ev.number /\ ev.merged
    THEN OwnLinks(links, Append(merged, links[Len(merged) + 1]), ev)
    ELSE merged

\* A variant of AfterLoop that comments without updating the bug.
AfterLoopNoUpdate(shouldMigrate) ==
    IF AsBugUpdate(options.StateAfterMerge, Nil) = Nil THEN "done"
    ELSE "CreateComment"

\* handleMerge, lines 748-761: what follows the loop over the links.
AfterLoop(shouldMigrate) ==
    IF AsBugUpdate(options.StateAfterMerge, Nil) = Nil THEN "done"
    ELSE IF shouldMigrate THEN "MergeUpdateBug"
    ELSE "CreateComment"

\* Variants of IsMerged: one that takes a closed pull request for a merged
\* one, one that takes every pull request for a merged one.
IsClosed(pull) == pull.State = "closed"
IsMergedAlways(pull) == TRUE

\* handleMerge, line 711: whether a fetched pull request counts as merged.
IsMerged(pull) == pull.Merged

\* A variant of MergeStep that does not move a bug with no link.
MergeStepNeedsLink(links, classified, ev) ==
    LET merged == OwnLinks(links, classified, ev)
        i == Len(merged) + 1
        unmerged == IF i <= Len(links) /\ links[i] = ev.number
                    THEN {[pr |-> links[i], state |-> ev.state]} ELSE {}
    IN  [merged |-> merged,
         unmerged |-> unmerged,
         pc |-> IF unmerged = {} /\ i <= Len(links) THEN "MergeGetPullRequest"
                ELSE AfterLoop(unmerged = {} /\ links # << >>),
         response |-> IF unmerged # {} \/ links = << >>
                      THEN [Response("someMerged") EXCEPT !.merged = merged, !.unmerged = unmerged]
                      ELSE IF i <= Len(links) THEN NoResponse
                      ELSE [Response("allMerged") EXCEPT !.merged = merged]]

\* handleMerge, lines 696-761, between two external calls: links are the
\* bug's external links, classified those found merged so far.  Yields the
\* links merged, the link found unmerged (if any), the next call and the
\* response composed.
MergeStep(links, classified, ev) ==
    LET merged == OwnLinks(links, classified, ev)
        i == Len(merged) + 1
        unmerged == IF i <= Len(links) /\ links[i] = ev.number
                    THEN {[pr |-> links[i], state |-> ev.state]} ELSE {}
    IN  [merged |-> merged,
         unmerged |-> unmerged,
         pc |-> IF unmerged = {} /\ i <= Len(links) THEN "MergeGetPullRequest"
                ELSE AfterLoop(unmerged = {}),
         response |-> IF unmerged # {}
                      THEN [Response("someMerged") EXCEPT !.merged = merged, !.unmerged = unmerged]
                      ELSE IF i <= Len(links) THEN NoResponse
                      ELSE [Response("allMerged") EXCEPT !.merged = merged]]

MergeLoop(links, classified) ==
    LET step == MergeStep(links, classified, Deref(e)) IN
    /\ mergedPRs' = step.merged
    /\ unmergedPrStates' = step.unmerged
    /\ pc' = step.pc
    /\ response' = step.response
    /\ ret' = IF step.pc = "done" THEN "nil" ELSE ret

\* Variants of FirstCall: one that fetches the bug of an unmerged event
\* without a bug reference, one that goes on with a merged one.
FirstCallFetchesMissing(ev) ==
    IF ev.merged
    THEN IF options.StateAfterMerge = Nil THEN "done"
         ELSE IF ev.missing THEN "done"
         ELSE IF options.ValidStates # Nil \/ options.StateAfterValidation # Nil
         THEN "MergeGetBug"
         ELSE "GetExternalBugPRsOnBug"
    ELSE "GetBug"
FirstCallMergesMissing(ev) ==
    IF ev.merged
    THEN IF options.StateAfterMerge = Nil THEN "done"
         ELSE IF options.ValidStates # Nil \/ options.StateAfterValidation # Nil
         THEN "MergeGetBug"
         ELSE "GetExternalBugPRsOnBug"
    ELSE IF ev.missing THEN "GetIssueLabels"
    ELSE "GetBug"

\* A variant of FirstCall that validates the bug of a merged event.
FirstCallValidatesMerged(ev) ==
    IF ev.missing THEN "GetIssueLabels" ELSE "GetBug"

\* handle, lines 391-409 and handleMerge, lines 656-688: the first external
\* call handle makes on the event ev; "done" when it returns without one.
FirstCall(ev) ==
    IF ev.merged
    THEN IF options.StateAfterMerge = Nil THEN "done"
         ELSE IF ev.missing THEN "done"
         ELSE IF options.ValidStates # Nil \/ options.StateAfterValidation # Nil
         THEN "MergeGetBug"
         ELSE "GetExternalBugPRsOnBug"
    ELSE IF ev.missing THEN "GetIssueLabels"
    ELSE "GetBug"

\* handle from its entry to its first external call, on the event ev.
EnterHandle(ev) ==
    /\ e' = Ptr(ev)
    /\ bug' = Nil
    /\ dependents' = << >>
    /\ verdict' = Nil
    /\ needsValidLabel' = FALSE
    /\ needsInvalidLabel' = FALSE
    /\ hasValidLabel' = FALSE
    /\ hasInvalidLabel' = FALSE
    /\ UNCHANGED mergeVars
    /\ pc' = FirstCall(ev)
    /\ ret' = IF pc' = "done" THEN "nil" ELSE "none"
    /\ response' = IF ~ev.merged /\ ev.missing THEN Response("missing") ELSE NoResponse

\* A delivery that yields no event: handle does not run.
NoHandle ==
    /\ e' = Nil
    /\ UNCHANGED <<bug, dependents, verdict, labelVars, mergeVars>>

\* What the run that just ended did to the labels: Nil unless it reached the
\* label stage and every label call of it succeeded, else what it wanted.
LabelCalls == {"GetIssueLabels", "AddLabel", "RemoveLabel"}
LabelSummary ==
    IF /\ \E i \in 1..Len(calls) : calls[i].call = "GetIssueLabels"
       /\ \A i \in 1..Len(calls) : calls[i].call \in LabelCalls => calls[i].ok
    THEN Ptr([needsValidLabel |-> needsValidLabel, needsInvalidLabel |-> needsInvalidLabel])
    ELSE Nil

\* ------------------------------------------------------------- deliveries
\* The handler has returned; the plugin waits for the next delivery.  It
\* keeps nothing of the run: prev is the model's record of what the run did
\* to the labels.
Returned ==
    /\ pc = "done"
    /\ prev' = LabelSummary
    /\ pc' = "idle"
    /\ pre' = Nil
    /\ gce' = Nil
    /\ pr' = Nil
    /\ pulls' = NoPulls
    /\ e' = Nil
    /\ bug' = Nil
    /\ dependents' = << >>
    /\ verdict' = Nil
    /\ needsValidLabel' = FALSE
    /\ needsInvalidLabel' = FALSE
    /\ hasValidLabel' = FALSE
    /\ hasInvalidLabel' = FALSE
    /\ response' = NoResponse
    /\ prs' = << >>
    /\ mergedPRs' = << >>
    /\ unmergedPrStates' = {}
    /\ calls' = << >>
    /\ ret' = "none"
    /\ UNCHANGED <<world, options, merges>>

\* handlePullRequest: digestPR, then handle on the event it yields.
handlePullRequest ==
    /\ pc = "idle"
    /\ UNCHANGED <<world, prev, options, merges, digestVars, calls>>
    /\ \E event \in PullRequestEvents :
        LET d == digestPR(event, options.ValidateByDefault) IN
        IF d.err
        THEN NoHandle /\ Return("err") /\ UNCHANGED response
        ELSE IF d.ev = Nil
        THEN NoHandle /\ Return("nil") /\ UNCHANGED response
        ELSE EnterHandle(Deref(d.ev))

\* Variants of CommentCall and of refreshCommandMatch: one that fetches the
\* pull request of an issue, one whose pattern is not anchored to a line.
CommentCallOnIssues(c) ==
    IF c.Action # "created" THEN "done"
    ELSE IF ~refreshCommandMatch(c.Body) /\ ~qaCommandMatch(c.Body) THEN "done"
    ELSE "GetPullRequest"

\* digestComment, lines 279-305: the first external call it makes on the
\* comment event c; "done" when it returns without one.
CommentCall(c) ==
    IF c.Action # "created" THEN "done"
    ELSE IF ~refreshCommandMatch(c.Body) /\ ~qaCommandMatch(c.Body) THEN "done"
    ELSE IF ~c.IsPR THEN "CreateComment"
    ELSE "GetPullRequest"

\* handleGenericComment and digestComment up to its first external call.
handleGenericComment ==
    /\ pc = "idle"
    /\ UNCHANGED <<world, prev, options, merges, pre, pr, calls>>
    /\ \E c \in GenericCommentEvents :
        /\ gce' = Ptr(c)
        /\ NoHandle
        /\ IF CommentCall(c) = "done"
           THEN Return("nil") /\ UNCHANGED response
           ELSE IF CommentCall(c) = "CreateComment"
           THEN ReturnComment(Response("issuesUnsupported"))
           ELSE /\ pc' = "GetPullRequest"
                /\ UNCHANGED <<response, ret>>

\* digestComment, lines 305-324: fetch the pull request and build the event;
\* then handleGenericComment runs handle on it.
GetPullRequest ==
    /\ pc = "GetPullRequest"
    /\ UNCHANGED <<world, prev, options, merges, pre, gce>>
    /\ \E ok \in BOOLEAN :
        /\ Log("GetPullRequest", ThisPR, ok)
        /\ IF ~ok
           THEN NoHandle /\ Return("err") /\ UNCHANGED <<pr, response>>
           ELSE \E st \in OwnPRStates, title \in Titles :
                LET pull == [Title |-> title, Merged |-> st.Merged, State |-> st.State]
                    d == digestComment(Deref(gce), pull)
                IN  /\ pr' = Ptr(pull)
                    /\ IF d.err
                       THEN NoHandle /\ Return("err") /\ UNCHANGED response
                       ELSE IF d.ev = Nil
                       THEN NoHandle /\ Return("nil") /\ UNCHANGED response
                       ELSE EnterHandle(Deref(d.ev))

\* ------------------------------------------------------------ review host
\* A variant of CommentResult: the handler fails after every comment.
CommentResultHard(ok) == "err"

\* comment(body), line 338: what the handler returns after the comment.
CommentResult(ok) == IF ok THEN "nil" ELSE "err"

\* comment(body): gc.CreateComment; the handler returns its error.
CreateComment ==
    /\ pc = "CreateComment"
    /\ \E ok \in BOOLEAN :
        /\ Log("CreateComment", response, ok)
        /\ Return(CommentResult(ok))
    /\ UNCHANGED <<world, prev, options, merges, digestVars, e, bug, dependents, verdict, labelVars,
                   response, mergeVars>>

\* Variants of LabelCall: one that never removes a label, one that never
\* adds one, one that adds a needed label whether or not it was read.
LabelCallAddsOnly(needs, has) ==
    IF needs /\ ~has THEN "AddLabel" ELSE ""
LabelCallRemovesOnly(needs, has) ==
    IF ~needs /\ has THEN "RemoveLabel" ELSE ""
LabelCallAddsAlways(needs, has) ==
    IF needs THEN "AddLabel"
    ELSE IF has THEN "RemoveLabel"
    ELSE ""

\* handle, lines 509-517 and 519-527: the call to make on a label that is
\* needed or not and was read or not; "" when there is none to make.
LabelCall(needs, has) ==
    IF needs /\ ~has THEN "AddLabel"
    ELSE IF ~needs /\ has THEN "RemoveLabel"
    ELSE ""

\* A variant of AfterLabelCall that ends the run when the call failed.
AfterLabelCallFailFast(ok, next) == IF ok THEN next ELSE "done"

\* handle, lines 496-498, 510-516, 520-526: the error of a label call is
\* logged and the run goes on to its next step.
AfterLabelCall(ok, next) == next

\* handle, lines 495-507: read the labels; a failure leaves none read.
GetIssueLabels ==
    /\ pc = "GetIssueLabels"
    /\ \E ok \in BOOLEAN :
        /\ Log("GetIssueLabels", ThisPR, ok)
        /\ hasValidLabel' = (ok /\ ValidBug \in labels)
        /\ hasInvalidLabel' = (ok /\ InvalidBug \in labels)
        /\ pc' = AfterLabelCall(ok,
                    IF LabelCall(needsValidLabel, hasValidLabel') # "" THEN "ValidBugLabel"
                    ELSE IF LabelCall(needsInvalidLabel, hasInvalidLabel') # ""
                    THEN "InvalidBugLabel"
                    ELSE "CreateComment")
    /\ UNCHANGED <<world, prev, options, merges, digestVars, e, bug, dependents, verdict, response,
                   needsValidLabel, needsInvalidLabel, mergeVars, ret>>

\* gc.AddLabel / gc.RemoveLabel on the review host: a failed call changes
\* nothing.
AddLabel(set, label, ok) == IF ok THEN set \cup {label} ELSE set
RemoveLabel(set, label, ok) == IF ok THEN set \ {label} ELSE set

\* handle, lines 509-517: add or remove the valid bug label.
ValidBugLabel ==
    /\ pc = "ValidBugLabel"
    /\ LET c == LabelCall(needsValidLabel, hasValidLabel) IN
       \E ok \in BOOLEAN :
        /\ Log(c, ValidBug, ok)
        /\ labels' = IF c = "AddLabel" THEN AddLabel(labels, ValidBug, ok)
                     ELSE RemoveLabel(labels, ValidBug, ok)
        /\ pc' = AfterLabelCall(ok,
                    IF LabelCall(needsInvalidLabel, hasInvalidLabel) # ""
                    THEN "InvalidBugLabel"
                    ELSE "CreateComment")
    /\ UNCHANGED labelVars
    /\ UNCHANGED <<tracker, prev, options, merges, digestVars, e, bug, dependents, verdict, response,
                   mergeVars, ret>>

\* handle, lines 519-527: add or remove the invalid bug label.
InvalidBugLabel ==
    /\ pc = "InvalidBugLabel"
    /\ LET c == LabelCall(needsInvalidLabel, hasInvalidLabel) IN
       \E ok \in BOOLEAN :
        /\ Log(c, InvalidBug, ok)
        /\ labels' = IF c = "AddLabel" THEN AddLabel(labels, InvalidBug, ok)
                     ELSE RemoveLabel(labels, InvalidBug, ok)
        /\ pc' = AfterLabelCall(ok, "CreateComment")
    /\ UNCHANGED labelVars
    /\ UNCHANGED <<tracker, prev, options, merges, digestVars, e, bug, dependents, verdict, response,
                   mergeVars, ret>>

\* gc.Query, lines 467-477: look the QA contact's email up in the directory.
Query ==
    /\ pc = "Query"
    /\ \E ok \in BOOLEAN : \E users \in IF ok THEN UserLists ELSE {<< >>} :
        /\ Log("Query", [email |-> Deref(Deref(bug).QAContactDetail).Email, edges |-> users], ok)
        /\ IF ~ok
           THEN /\ ReturnComment(formatError("querying GitHub for users with public email"))
                /\ UNCHANGED bug
           ELSE LET q == processQuery(users) IN
                /\ response' = [response EXCEPT !.qa = q.kind, !.assign = q.assign]
                /\ pc' = "GetIssueLabels"
                /\ ret' = ret
                /\ KeepBug(Deref(bug))
    /\ UNCHANGED <<world, prev, options, merges, digestVars, e, dependents, verdict, labelVars, mergeVars>>

\* ---------------------------------------------------------------- tracker
\* What getBug's call to bc.GetBug yields.
GetBugOutcomes == {"ok", "notFound", "error"}

\* A variant of getBugFailure with one comment for every failure.
getBugFailureGeneric(outcome) == formatError("searching")

\* getBug, lines 764-777, on a failed fetch: the comment it posts.
getBugFailure(outcome) ==
    IF outcome = "notFound" THEN Response("notFound") ELSE formatError("searching")

\* bc.UpdateBug on the tracker: the fields the update sets are written; a
\* failed call changes nothing.
ApplyUpdate(state, update, ok) ==
    IF ~ok THEN state
    ELSE BugState(IF update.Status # "" THEN update.Status ELSE state.Status,
                  IF update.Resolution # "" THEN update.Resolution ELSE state.Resolution)

\* A variant of FetchesDependents that fetches them under every policy.
FetchesDependentsAlways == TRUE
\* A variant of FetchesDependents that fetches under a policy on the open
\* bugs too.
FetchesDependentsWhenOpen ==
    \/ options.IsOpen # Nil
    \/ options.DependentBugStates # Nil
    \/ options.DependentBugTargetRelease # Nil

\* Whether handle fetches the bug's dependencies, line 415.
FetchesDependents ==
    options.DependentBugStates # Nil \/ options.DependentBugTargetRelease # Nil

\* handle, lines 409-423: fetch the referenced bug.  The QA contact is read
\* on an assign-qa event alone (line 461); other runs are given none.
GetBug ==
    /\ pc = "GetBug"
    /\ UNCHANGED <<world, prev, options, merges, digestVars, e, mergeVars, hasValidLabel, hasInvalidLabel>>
    /\ \E outcome \in GetBugOutcomes :
        /\ Log("GetBug", Deref(e).bugId, outcome = "ok")
        /\ IF outcome # "ok"
           THEN /\ ReturnComment(getBugFailure(outcome))
                /\ UNCHANGED <<bug, dependents, verdict, needsValidLabel, needsInvalidLabel>>
           ELSE \E isOpen \in BOOLEAN, dependsOn \in DependsOnLists,
                   qa \in IF Deref(e).assign THEN QAContacts ELSE {Nil} :
                LET b == Bug(Deref(e).bugId, isOpen, tracker, dependsOn, qa) IN
                IF FetchesDependents /\ Len(dependsOn) > 0
                THEN /\ pc' = "GetDependent"
                     /\ bug' = Ptr(b)
                     /\ UNCHANGED <<dependents, verdict, needsValidLabel, needsInvalidLabel,
                                    response, ret>>
                ELSE Validate(b, << >>)

\* handle, lines 416-422: fetch the next dependency of the bug.
GetDependent ==
    /\ pc = "GetDependent"
    /\ UNCHANGED <<world, prev, options, merges, digestVars, e, mergeVars, hasValidLabel, hasInvalidLabel>>
    /\ LET id == Deref(bug).DependsOn[Len(dependents) + 1] IN
       \E ok \in BOOLEAN :
        /\ Log("GetBug", id, ok)
        /\ IF ~ok
           THEN /\ ReturnComment(formatError("searching for dependent bug"))
                /\ UNCHANGED <<bug, dependents, verdict, needsValidLabel, needsInvalidLabel>>
           ELSE \E state \in DependentStates :
                LET fetched == Append(dependents, Bug(id, TRUE, state, << >>, Nil)) IN
                IF Len(fetched) < Len(Deref(bug).DependsOn)
                THEN /\ dependents' = fetched
                     /\ UNCHANGED <<pc, bug, verdict, needsValidLabel, needsInvalidLabel,
                                    response, ret>>
                ELSE Validate(Deref(bug), fetched)

\* handle, lines 431-437: move the valid bug to StateAfterValidation.
UpdateBug ==
    /\ pc = "UpdateBug"
    /\ UNCHANGED <<labels, prev, options, merges, digestVars, e, dependents, verdict, labelVars, mergeVars>>
    /\ LET update == Deref(AsBugUpdate(options.StateAfterValidation, bug)) IN
       \E ok \in BOOLEAN :
        /\ Log("UpdateBug", update, ok)
        /\ tracker' = ApplyUpdate(tracker, update, ok)
        /\ IF ~ok
           THEN /\ ReturnComment(formatError("updating to the StateAfterValidation state"))
                /\ UNCHANGED bug
           ELSE LET next == LinkStage([response EXCEPT !.moved = TRUE], Deref(bug)) IN
                /\ pc' = next.pc
                /\ response' = next.response
                /\ ret' = ret
                /\ KeepBug(Deref(bug))

\* handle, lines 438-447: record the pull request as an external link of
\* the bug.  Whether the tracker had the link already only picks a sentence
\* of the response.
AddPullRequestAsExternalBug ==
    /\ pc = "AddPullRequestAsExternalBug"
    /\ UNCHANGED <<world, prev, options, merges, digestVars, e, dependents, verdict, labelVars, mergeVars>>
    /\ \E ok \in BOOLEAN :
        /\ Log("AddPullRequestAsExternalBug", Deref(e).number, ok)
        /\ IF ~ok
           THEN /\ ReturnComment(formatError("adding this pull request to the external tracker bugs"))
                /\ UNCHANGED bug
           ELSE LET next == QAStage(response, Deref(bug)) IN
                /\ pc' = next.pc
                /\ response' = next.response
                /\ ret' = ret
                /\ KeepBug(Deref(bug))

\* ------------------------------------------------------------ handleMerge
\* A variant of MergeAllowed that moves a bug from any state.
MergeAllowedAlways(b) == TRUE

\* handleMerge, lines 674-683: the bug fetched is in a state the policy
\* knows.
MergeAllowed(b) == bugMatchesStates(b, AllowedStates(options))

\* handleMerge, lines 665-686: re-fetch the bug and refuse to move it from a
\* state the policy does not know.
MergeGetBug ==
    /\ pc = "MergeGetBug"
    /\ UNCHANGED <<world, prev, options, merges, digestVars, e, dependents, verdict, labelVars, mergeVars>>
    /\ \E outcome \in GetBugOutcomes :
        /\ Log("GetBug", Deref(e).bugId, outcome = "ok")
        /\ IF outcome # "ok"
           THEN ReturnComment(getBugFailure(outcome)) /\ UNCHANGED bug
           ELSE LET b == Bug(Deref(e).bugId, TRUE, tracker, << >>, Nil) IN
                /\ bug' = Ptr(b)
                /\ IF ~MergeAllowed(b)
                   THEN ReturnComment(Response("unrecognizedState"))
                   ELSE /\ pc' = "GetExternalBugPRsOnBug"
                        /\ UNCHANGED <<response, ret>>

\* handleMerge, lines 688-692: list the pull requests linked to the bug.
GetExternalBugPRsOnBug ==
    /\ pc = "GetExternalBugPRsOnBug"
    /\ UNCHANGED <<world, prev, options, merges, digestVars, e, bug, dependents, verdict, labelVars>>
    /\ \E ok \in BOOLEAN :
        /\ Log("GetExternalBugPRsOnBug", Deref(e).bugId, ok)
        /\ IF ~ok
           THEN /\ ReturnComment(formatError("searching for external tracker bugs"))
                /\ UNCHANGED mergeVars
           ELSE \E links \in LinkLists : \E hosted \in PullsOf(links) :
                /\ prs' = links
                /\ pulls' = hosted
                /\ MergeLoop(links, << >>)

\* handleMerge, lines 703-723: fetch a linked pull request and classify it.
MergeGetPullRequest ==
    /\ pc = "MergeGetPullRequest"
    /\ UNCHANGED <<world, prev, options, merges, digestVars, e, bug, dependents, verdict, labelVars,
                   pulls, prs>>
    /\ LET item == prs[Len(mergedPRs) + 1] IN
       \E ok \in BOOLEAN :
        /\ Log("GetPullRequest", item, ok)
        /\ IF ~ok
           THEN /\ ReturnComment([formatError("checking the state of a related pull request")
                                    EXCEPT !.related = Ptr(item)])
                /\ UNCHANGED <<mergedPRs, unmergedPrStates>>
           ELSE IF IsMerged(pulls[item])
                THEN MergeLoop(prs, Append(mergedPRs, item))
                ELSE /\ unmergedPrStates' = {[pr |-> item, state |-> pulls[item].State]}
                     /\ mergedPRs' = mergedPRs
                     /\ IF AfterLoop(FALSE) = "done"
                        THEN Return("nil") /\ UNCHANGED response
                        ELSE ReturnComment([Response("someMerged") EXCEPT
                                               !.merged = mergedPRs,
                                               !.unmerged = unmergedPrStates'])

\* handleMerge, lines 748-760: move the bug to StateAfterMerge.
MergeUpdateBug ==
    /\ pc = "MergeUpdateBug"
    /\ UNCHANGED <<labels, prev, options, merges, digestVars, e, bug, dependents, verdict, labelVars, mergeVars>>
    /\ LET update == Deref(AsBugUpdate(options.StateAfterMerge, Nil)) IN
       \E ok \in BOOLEAN :
        /\ Log("UpdateBug", update, ok)
        /\ tracker' = ApplyUpdate(tracker, update, ok)
        /\ IF ~ok
           THEN ReturnComment(formatError("updating to the StateAfterMerge state"))
           ELSE ReturnComment(response)

\* ---------------------------------------------------------- specification
Next ==
    \/ Returned
    \/ handlePullRequest
    \/ handleGenericComment
    \/ GetPullRequest
    \/ GetBug
    \/ GetDependent
    \/ UpdateBug
    \/ AddPullRequestAsExternalBug
    \/ Query
    \/ GetIssueLabels
    \/ ValidBugLabel
    \/ InvalidBugLabel
    \/ CreateComment
    \/ MergeGetBug
    \/ GetExternalBugPRsOnBug
    \/ MergeGetPullRequest
    \/ MergeUpdateBug

Spec == Init /\ [][Next]_vars

\* ---------------------------------------------------------------- digests
\* The digests alone, on a wider range of deliveries: digestPR on a pull
\* request event, digestComment on a command comment and the pull request
\* fetched for it.  The event digested and its result are kept until the
\* handler returns.  digestPR is applied to every payload of its type:
\* changes may come with any action.
DigestTitles ==
    Titles \cup
    {<< >>,
     <<"Bug ", "0", ":">>,
     <<"bug ", "01", ":", "fix">>,
     <<"fix", "Bug ", "1", ":">>,
     <<"Bug ", "1">>,
     <<"Bug", "1", ":">>,
     <<"Bug ", "0", ":", "Bug ", "1", ":">>}
DigestPullRequestEvents ==
    {event \in [Action : {"opened", "reopened", "edited", "closed", "labeled", "synchronize"},
                Merged : BOOLEAN, State : {"open", "closed"}, Title : DigestTitles,
                Changes : [ok : BOOLEAN, from : DigestTitles]] :
        /\ [Merged |-> event.Merged, State |-> event.State] \in PRStates
        /\ event.Action \in {"opened", "reopened"} => event.State = "open"
        /\ event.Action = "closed" => event.State = "closed"
        /\ ~event.Changes.ok => event.Changes.from = << >>}
DigestBodies == Bodies \cup {<<"thanks", "/BUGZILLA REFRESH ">>, <<"/Bugzilla Assign-QA">>}
DigestOptions ==
    {[Unconfigured EXCEPT !.ValidateByDefault = v] : v \in {Nil, Ptr(TRUE), Ptr(FALSE)}}

InitDigest ==
    /\ labels = {}
    /\ tracker = New
    /\ options \in DigestOptions
    /\ prev = Nil
    /\ NoRun
    /\ NoMerges

DigestPullRequest ==
    /\ pc = "idle"
    /\ \E event \in DigestPullRequestEvents :
        LET d == digestPR(event, options.ValidateByDefault) IN
        /\ pre' = Ptr(event)
        /\ e' = d.ev
        /\ Return(IF d.err THEN "err" ELSE "nil")
    /\ UNCHANGED <<world, prev, options, merges, gce, pr, bug, dependents, verdict, labelVars,
                   response, mergeVars, calls>>

DigestComment ==
    /\ pc = "idle"
    /\ \E c \in [Action : {"created"}, Body : DigestBodies, IsPR : {TRUE}],
          st \in PRStates, title \in DigestTitles :
        LET pull == [Title |-> title, Merged |-> st.Merged, State |-> st.State]
            d == digestComment(c, pull)
        IN  /\ refreshCommandMatch(c.Body) \/ qaCommandMatch(c.Body)
            /\ gce' = Ptr(c)
            /\ pr' = Ptr(pull)
            /\ e' = d.ev
            /\ Return(IF d.err THEN "err" ELSE "nil")
    /\ UNCHANGED <<world, prev, options, merges, pre, bug, dependents, verdict, labelVars,
                   response, mergeVars, calls>>

NextDigest ==
    \/ DigestPullRequest
    \/ DigestComment
    \/ Returned

SpecDigest == InitDigest /\ [][NextDigest]_vars

\* ------------------------------------------------- validateBug on its own
\* validateBug applied to policies, bugs and dependents lists of every
\* shape, the ones handle never passes it among them: target releases set,
\* an empty list of valid states, dependents when no dependent check is
\* configured.
Releases == {"4.1", "4.2"}
TargetReleases == {<< >>, <<"4.1">>, <<"4.2">>, <<"4.2", "4.1">>, <<"4.1", "4.2">>}
ValidateOptions ==
    {[Unconfigured EXCEPT !.IsOpen = isOpen, !.TargetRelease = release,
                          !.ValidStates = states, !.StateAfterValidation = after,
                          !.DependentBugStates = depStates,
                          !.DependentBugTargetRelease = depRelease] :
        isOpen \in {Nil, Ptr(TRUE), Ptr(FALSE)},
        release \in {Nil, Ptr("4.1")},
        states \in {Nil, Ptr(<<New>>), Ptr(<< >>)},
        after \in {Nil, Ptr(Post)},
        depStates \in {Nil, Ptr(<<ClosedErrata>>)},
        depRelease \in {Nil, Ptr("4.1")}}
ValidateBugs ==
    {[Bug(1, isOpen, state, << >>, Nil) EXCEPT !.TargetRelease = release] :
        isOpen \in BOOLEAN, state \in TrackerStates, release \in TargetReleases}
ValidateDependents ==
    UNION {[1..n -> DependentStates \X {<< >>, <<"4.1">>, <<"4.2">>}] : n \in 0..MaxDeps}
Dependent(id, d) ==
    [Bug(id, d[1] # ClosedErrata, d[1], << >>, Nil) EXCEPT !.TargetRelease = d[2]]

InitValidate ==
    /\ labels = {}
    /\ tracker = New
    /\ options \in ValidateOptions
    /\ prev = Nil
    /\ NoRun
    /\ NoMerges

ValidateBug ==
    /\ pc = "idle"
    /\ \E b \in ValidateBugs, ds \in ValidateDependents :
        LET deps == [i \in 1..Len(ds) |-> Dependent(i + 1, ds[i])] IN
        /\ bug' = Ptr(b)
        /\ dependents' = deps
        /\ verdict' = Ptr(validateBug(b, deps, options))
        /\ Return("nil")
    /\ UNCHANGED <<world, prev, options, merges, digestVars, e, labelVars, response, mergeVars, calls>>

NextValidate ==
    \/ ValidateBug
    \/ Returned

SpecValidate == InitValidate /\ [][NextValidate]_vars

\* ------------------------------------------- merges of linked pull requests
\* The pull requests that reference one bug merge one after the other, and
\* handleMerge runs for each of them; the runs of different pull requests
\* interleave at their external calls.  A run starts on the merge event of
\* its pull request, delivered once the merge shows on the review host, or
\* later on a refresh comment on the merged pull request.  The tracker's
\* list of links and the policy are fixed; the bug's state changes by the
\* runs alone.
\* Pull requests that reference the bug, one run of handleMerge at a time
\* for each.
MaxHandlers == 2
MergePRs == 1..MaxHandlers
\* The counter of the updates issued stops here.
MaxIssued == 2

\* The policies with a state after merge: no pre-merge check, one that
\* knows the states NEW and POST, one that knows NEW alone.
MergeOptions ==
    {[Unconfigured EXCEPT !.StateAfterMerge = Ptr(Modified),
                          !.ValidStates = states, !.StateAfterValidation = after] :
        states \in {Nil, Ptr(<<New>>)}, after \in {Nil, Ptr(Post)}}

\* The event digestPR / digestComment yields for the merged pull request p.
MergedEvent(p) == Event(p, 1, FALSE, TRUE, "closed", "", FALSE)
\* A variant of HostedPR where the review host never shows a merge.
HostedPROpen(p) == [Merged |-> FALSE, State |-> "open"]
\* What gc.GetPullRequest returns for the pull request p.
HostedPR(p) == [Merged |-> p \in mergedOnHost, State |-> IF p \in mergedOnHost THEN "closed" ELSE "open"]
\* A run of handleMerge: the call it is about to make, the links found
\* merged, the comment composed, and whether it started after an update to
\* the post-merge state had succeeded.
Run(at, merged, resp, late) == [pc |-> at, merged |-> merged, response |-> resp, late |-> late]
NotRunning == Run("idle", << >>, NoResponse, FALSE)
IsLinked(p) == \E i \in 1..Len(linked) : linked[i] = p

InitMerge ==
    /\ labels = {}
    /\ tracker \in {New, Post}
    /\ options \in MergeOptions
    /\ prev = Nil
    /\ NoRun
    /\ linked \in {l \in LinkLists : l # << >> /\ \A i \in 1..Len(l) : l[i] \in MergePRs}
    /\ mergedOnHost = {}
    /\ pending = {}
    /\ runs = [p \in MergePRs |-> NotRunning]
    /\ issued = 0
    /\ applied = FALSE
    /\ callFailed = FALSE

handlerVars ==
    <<labels, prev, pc, pre, gce, pr, e, bug, dependents, verdict, labelVars, response,
      mergeVars, calls, ret>>

\* The pull request p merges; the review host shows the merge and delivers
\* the event.
Merge(p) ==
    /\ p \notin mergedOnHost
    /\ mergedOnHost' = mergedOnHost \cup {p}
    /\ pending' = pending \cup {p}
    /\ UNCHANGED <<tracker, options, handlerVars, linked, runs, issued, applied, callFailed>>

\* handlePullRequest on the merge event of p: handle, lines 391-396, hands
\* it to handleMerge.
HandleMerged(p) ==
    /\ p \in pending
    /\ runs[p].pc = "idle"
    /\ pending' = pending \ {p}
    /\ runs' = [runs EXCEPT ![p] = Run(FirstCall(MergedEvent(p)), << >>, NoResponse, applied)]
    /\ UNCHANGED <<tracker, options, handlerVars, linked, mergedOnHost, issued, applied, callFailed>>

\* handleGenericComment on a refresh comment on the merged pull request p:
\* digestComment, lines 304-309, fetches the pull request and the event it
\* yields is a merged one.
RefreshMerged(p) ==
    /\ p \in mergedOnHost
    /\ runs[p].pc = "idle"
    /\ \E ok \in BOOLEAN :
        /\ callFailed' = (callFailed \/ ~ok)
        /\ runs' = [runs EXCEPT ![p] =
                        IF ok THEN Run(FirstCall(MergedEvent(p)), << >>, NoResponse, applied)
                        ELSE NotRunning]
    /\ UNCHANGED <<tracker, options, handlerVars, linked, mergedOnHost, pending, issued, applied>>

\* handleMerge, lines 665-686, in the run of p.
MergeGetBugOf(p) ==
    /\ runs[p].pc = "MergeGetBug"
    /\ \E outcome \in GetBugOutcomes :
        LET b == Bug(1, TRUE, tracker, << >>, Nil) IN
        /\ callFailed' = (callFailed \/ outcome # "ok")
        /\ runs' = [runs EXCEPT ![p] =
                        IF outcome # "ok"
                        THEN [@ EXCEPT !.pc = "CreateComment", !.response = getBugFailure(outcome)]
                        ELSE IF ~MergeAllowed(b)
                        THEN [@ EXCEPT !.pc = "CreateComment",
                                       !.response = Response("unrecognizedState")]
                        ELSE [@ EXCEPT !.pc = "GetExternalBugPRsOnBug"]]
    /\ UNCHANGED <<tracker, options, handlerVars, linked, mergedOnHost, pending, issued, applied>>

\* handleMerge, lines 688-724, in the run of p: list the links and walk
\* them up to the first that has to be fetched.
GetExternalBugPRsOnBugOf(p) ==
    /\ runs[p].pc = "GetExternalBugPRsOnBug"
    /\ \E ok \in BOOLEAN :
        LET step == MergeStep(linked, << >>, MergedEvent(p)) IN
        /\ callFailed' = (callFailed \/ ~ok)
        /\ runs' = [runs EXCEPT ![p] =
                        IF ~ok
                        THEN [@ EXCEPT !.pc = "CreateComment",
                                       !.response = formatError("searching for external tracker bugs")]
                        ELSE [@ EXCEPT !.pc = step.pc, !.merged = step.merged,
                                       !.response = step.response]]
    /\ UNCHANGED <<tracker, options, handlerVars, linked, mergedOnHost, pending, issued, applied>>

\* handleMerge, lines 703-723, in the run of p: fetch the next link.
MergeGetPullRequestOf(p) ==
    /\ runs[p].pc = "MergeGetPullRequest"
    /\ LET item == linked[Len(runs[p].merged) + 1] IN
       \E ok \in BOOLEAN :
        LET step == MergeStep(linked, Append(runs[p].merged, item), MergedEvent(p)) IN
        /\ callFailed' = (callFailed \/ ~ok)
        /\ runs' = [runs EXCEPT ![p] =
                        IF ~ok
                        THEN [@ EXCEPT !.pc = "CreateComment",
                                       !.response = [formatError("checking the state of a related pull request")
                                                        EXCEPT !.related = Ptr(item)]]
                        ELSE IF IsMerged(HostedPR(item))
                        THEN [@ EXCEPT !.pc = step.pc, !.merged = step.merged,
                                       !.response = step.response]
                        ELSE [@ EXCEPT !.pc = AfterLoop(FALSE),
                                       !.response = [Response("someMerged") EXCEPT
                                                        !.merged = runs[p].merged,
                                                        !.unmerged = {[pr |-> item,
                                                                       state |-> HostedPR(item).State]}]]]
    /\ UNCHANGED <<tracker, options, handlerVars, linked, mergedOnHost, pending, issued, applied>>

\* handleMerge, lines 748-760, in the run of p: move the bug.
MergeUpdateBugOf(p) ==
    /\ runs[p].pc = "MergeUpdateBug"
    /\ LET update == Deref(AsBugUpdate(options.StateAfterMerge, Nil)) IN
       \E ok \in BOOLEAN :
        /\ tracker' = ApplyUpdate(tracker, update, ok)
        /\ issued' = IF issued < MaxIssued THEN issued + 1 ELSE issued
        /\ applied' = (applied \/ ok)
        /\ callFailed' = (callFailed \/ ~ok)
        /\ runs' = [runs EXCEPT ![p] =
                        [@ EXCEPT !.pc = "CreateComment",
                                  !.response = IF ok THEN @
                                               ELSE formatError("updating to the StateAfterMerge state")]]
    /\ UNCHANGED <<options, handlerVars, linked, mergedOnHost, pending>>

\* comment, lines 336-340, in the run of p; the run ends.
CreateCommentOf(p) ==
    /\ runs[p].pc = "CreateComment"
    /\ \E ok \in BOOLEAN :
        /\ callFailed' = (callFailed \/ ~ok)
        /\ runs' = [runs EXCEPT ![p] = NotRunning]
    /\ UNCHANGED <<tracker, options, handlerVars, linked, mergedOnHost, pending, issued, applied>>

NextMerge ==
    \/ \E p \in MergePRs : Merge(p)
    \/ \E p \in MergePRs : HandleMerged(p)
    \/ \E p \in MergePRs : RefreshMerged(p)
    \/ \E p \in MergePRs : MergeGetBugOf(p)
    \/ \E p \in MergePRs : GetExternalBugPRsOnBugOf(p)
    \/ \E p \in MergePRs : MergeGetPullRequestOf(p)
    \/ \E p \in MergePRs : MergeUpdateBugOf(p)
    \/ \E p \in MergePRs : CreateCommentOf(p)

SpecMerge == InitMerge /\ [][NextMerge]_vars

\* Every linked pull request merges, every merge event is handled, and a
\* run that has a call to make makes it.
MergeFairness ==
    \A p \in MergePRs :
        /\ WF_vars(IsLinked(p) /\ Merge(p))
        /\ SF_vars(IsLinked(p) /\ HandleMerged(p))
        /\ WF_vars(MergeGetBugOf(p))
        /\ WF_vars(GetExternalBugPRsOnBugOf(p))
        /\ WF_vars(MergeGetPullRequestOf(p))
        /\ WF_vars(MergeUpdateBugOf(p))
        /\ WF_vars(CreateCommentOf(p))
SpecMergeFair == SpecMerge /\ MergeFairness

\* ----------------------------------------------------------- observations
\* The calls of the current run with a given name, and how many they are.
CallsNamed(name) == {i \in 1..Len(calls) : calls[i].call = name}
Count(name) == Cardinality(CallsNamed(name))
LabelWrites == CallsNamed("AddLabel") \cup CallsNamed("RemoveLabel")
AllCallsOk == \A i \in 1..Len(calls) : calls[i].ok

\* The handler has returned from a run of handle on an event.
Handled == pc = "done" /\ e # Nil
\* The run read the labels and every label call of it succeeded.
LabelsReconciled == LabelSummary # Nil
BothLabels == ValidBug \in labels /\ InvalidBug \in labels

\* ------------------------------------------------------------------ C1
\* C1 as stated: in every reachable state, intermediate states of a run and
\* states after a failed call included, the valid bug label and the invalid
\* bug label are never both on the pull request: no step of the plugin
\* takes a pull request that does not carry both labels to one that does.
C1_NeverBoth == [][~BothLabels => ~BothLabels']_vars

\* C1, amended: when a run of handle ends after reading the labels with
\* every label call of it succeeding, the two labels are not both on the
\* pull request, whatever labels it carried before.  (Between the AddLabel
\* of one label and the RemoveLabel of the other both are present, and they
\* stay so when the RemoveLabel fails.)
C1_ExclusiveWhenReconciled == (pc = "done" /\ LabelsReconciled) => ~BothLabels

\* A run that added one label and removed the other has ended.
C1_Flipped ==
    /\ pc = "done"
    /\ LabelsReconciled
    /\ CallsNamed("AddLabel") # {}
    /\ CallsNamed("RemoveLabel") # {}

\* ------------------------------------------------------------------ C2
\* C2 as stated: after every run of handle on an event that is not merged
\* and for which a Verdict was computed, the valid bug label is present iff
\* the Verdict is valid and the invalid bug label iff it is invalid.
C2_LabelsMatchVerdict ==
    (Handled /\ verdict # Nil) =>
        /\ (ValidBug \in labels) = Deref(verdict).valid
        /\ (InvalidBug \in labels) = ~Deref(verdict).valid

\* C2, amended: the labels match the Verdict after every such run that
\* went on to read the labels and whose label calls all succeeded, for
\* every initial label set.  (A failed UpdateBug, AddPullRequestAsExternalBug
\* or Query ends the run before the labels are touched, and a failed label
\* call is not retried.)
C2_LabelsMatchVerdictWhenReconciled ==
    (Handled /\ verdict # Nil /\ LabelsReconciled) =>
        /\ (ValidBug \in labels) = Deref(verdict).valid
        /\ (InvalidBug \in labels) = ~Deref(verdict).valid

\* An open-bug policy, a closed bug: the Verdict is invalid with a mismatch
\* on the open check, and the run replaced the valid label by the invalid.
C2_ClosedBugRelabelled ==
    /\ Handled
    /\ verdict # Nil
    /\ ~Deref(verdict).valid
    /\ \E i \in 1..Len(Deref(verdict).errors) : Deref(verdict).errors[i].check = "open"
    /\ LabelsReconciled
    /\ \E i \in CallsNamed("RemoveLabel") : calls[i].arg = ValidBug
    /\ labels = {InvalidBug}

\* ------------------------------------------------------------------ C3
\* C3 as stated: for every handled event whose missing flag is set, merged
\* or not, the run never fetches or validates a bug, and when it ends
\* neither label is on the pull request.
C3_MissingClearsLabels ==
    (e # Nil /\ Deref(e).missing) =>
        /\ CallsNamed("GetBug") = {}
        /\ verdict = Nil
        /\ (pc = "done" => labels = {})

\* C3, amended: such a run never fetches or validates a bug; when the event
\* is not merged and the run's label calls all succeed, neither label is on
\* the pull request when it ends; when the event is merged the run makes no
\* call of handle's at all and leaves the labels as they were.
C3_MissingNeverFetches ==
    (e # Nil /\ Deref(e).missing) =>
        /\ CallsNamed("GetBug") = {}
        /\ verdict = Nil
        /\ (pc = "done" /\ ~Deref(e).merged /\ LabelsReconciled => labels = {})
        /\ (Deref(e).merged => pc = "done" /\ CallsNamed("GetIssueLabels") = {}
                                /\ LabelWrites = {} /\ CallsNamed("CreateComment") = {})

\* A run on an unmerged pull request without a bug reference removed a label
\* and has ended with none.
C3_MissingUnlabelled ==
    /\ Handled
    /\ Deref(e).missing
    /\ ~Deref(e).merged
    /\ LabelsReconciled
    /\ CallsNamed("RemoveLabel") # {}
    /\ labels = {}

\* ------------------------------------------------------------------ C4
\* The bug's links have been listed; whether a listed pull request is
\* unmerged on the review host (the event's own pull request is merged).
ListReturned == \E i \in CallsNamed("GetExternalBugPRsOnBug") : calls[i].ok
Unmerged(p) == p # ThisPR /\ ~pulls[p].Merged
LinkedUnmerged == \E i \in 1..Len(prs) : Unmerged(prs[i])
\* The run's comment names a linked pull request that is unmerged: in its
\* list of unmerged pull requests, or as the one whose fetch failed.
NamesUnmerged ==
    \E i \in CallsNamed("CreateComment") :
        \/ \E u \in calls[i].arg.unmerged : Unmerged(u.pr)
        \/ calls[i].arg.related # Nil /\ Unmerged(Deref(calls[i].arg.related))
\* The run's comment lists a linked pull request as unmerged, and only
\* such ones.
ListsUnmerged ==
    \E i \in CallsNamed("CreateComment") :
        /\ calls[i].arg.unmerged # {}
        /\ \A u \in calls[i].arg.unmerged :
            /\ \E j \in 1..Len(prs) : prs[j] = u.pr
            /\ Unmerged(u.pr)
            /\ u.state = pulls[u.pr].State

\* C4 as stated: handleMerge calls UpdateBug, with the post-merge state,
\* only if every pull request in the list of links returned for the bug is
\* merged; if a linked pull request is unmerged, UpdateBug is never called
\* in that run and the comment posted names an unmerged pull request.
C4_UpdateOnlyWhenAllMerged ==
    (e # Nil /\ Deref(e).merged) =>
        /\ \A i \in CallsNamed("UpdateBug") :
            /\ ListReturned
            /\ ~LinkedUnmerged
            /\ calls[i].arg = Deref(options.StateAfterMerge)
        /\ (ListReturned /\ LinkedUnmerged) =>
            /\ CallsNamed("UpdateBug") = {}
            /\ (pc = "done" => NamesUnmerged)

\* C4, amended: the same, the comment posted listing an unmerged pull
\* request as such when every GetPullRequest of the run succeeded.  (When
\* the fetch of a linked pull request fails the run posts the error
\* instead, which names the pull request it could not fetch.)
C4_UpdateOnlyWhenAllMergedFetched ==
    (e # Nil /\ Deref(e).merged) =>
        /\ \A i \in CallsNamed("UpdateBug") :
            /\ ListReturned
            /\ ~LinkedUnmerged
            /\ calls[i].arg = Deref(options.StateAfterMerge)
        /\ (ListReturned /\ LinkedUnmerged) =>
            /\ CallsNamed("UpdateBug") = {}
            /\ (pc = "done" /\ (\A i \in CallsNamed("GetPullRequest") : calls[i].ok)
                    => ListsUnmerged)

\* Two links, the first merged, the second closed without a merge: the run
\* ended with a comment naming the second and no update.
C4_SecondLinkUnmerged ==
    /\ Handled
    /\ Deref(e).merged
    /\ Len(prs) = 2
    /\ prs[1] # ThisPR /\ pulls[prs[1]].Merged
    /\ prs[2] # ThisPR /\ ~pulls[prs[2]].Merged /\ pulls[prs[2]].State = "closed"
    /\ ListsUnmerged
    /\ CallsNamed("UpdateBug") = {}

\* ------------------------------------------------------------------ C5
\* C5: for a merged event with a bug reference and a configured post-merge
\* state, when the pre-merge state check passes (or is not configured), all
\* the linked pull requests are merged and no external call fails, the
\* tracker is updated exactly once in the run, to the post-merge state.
C5_AllMergedUpdatesOnce ==
    (/\ Handled
     /\ Deref(e).merged
     /\ ~Deref(e).missing
     /\ options.StateAfterMerge # Nil
     /\ AllCallsOk
     /\ ListReturned
     /\ ~LinkedUnmerged) =>
        /\ Count("UpdateBug") = 1
        /\ \A i \in CallsNamed("UpdateBug") : calls[i].arg = Deref(options.StateAfterMerge)
        /\ Matches(Deref(options.StateAfterMerge), tracker)

\* Such a run with as many links as the bound allows, one of another pull
\* request, and the pre-merge check configured, has ended.
C5_AllLinksMerged ==
    /\ Handled
    /\ Deref(e).merged
    /\ AllCallsOk
    /\ ListReturned
    /\ Len(prs) = MaxLinks
    /\ \E i \in 1..Len(prs) : prs[i] # ThisPR
    /\ ~LinkedUnmerged
    /\ CallsNamed("GetBug") # {}
    /\ Count("UpdateBug") = 1

\* ------------------------------------------------------------------ C6
\* C6 as stated: every event handle processes results in exactly one
\* CreateComment call, on every path and under every policy.
C6_OneCommentPerEvent == Handled => Count("CreateComment") = 1

\* C6, amended: a run of handle makes at most one CreateComment call, and
\* exactly one by the time it ends unless the event is merged and either
\* the policy has no post-merge state or the title references no bug: then
\* it makes none.  (The post-merge state sets a status or a resolution.)
C6_OneCommentUnlessSilentMerge ==
    /\ Count("CreateComment") <= 1
    /\ Handled =>
        Count("CreateComment") =
            IF Deref(e).merged /\ (options.StateAfterMerge = Nil \/ Deref(e).missing)
            THEN 0 ELSE 1

\* A run in which a tracker or review-host call failed has ended with its
\* one comment.
C6_CommentAfterFailure ==
    /\ Handled
    /\ \E i \in 1..Len(calls) : calls[i].call # "CreateComment" /\ ~calls[i].ok
    /\ Count("CreateComment") = 1

\* ------------------------------------------------------------------ C7
\* C7: within one run of handle UpdateBug is called at most once and
\* AddPullRequestAsExternalBug at most once.
C7_AtMostOneUpdateAndLink ==
    /\ Count("UpdateBug") <= 1
    /\ Count("AddPullRequestAsExternalBug") <= 1

\* A run that made both calls has ended.
C7_UpdatedAndLinked ==
    /\ Handled
    /\ Count("UpdateBug") = 1
    /\ Count("AddPullRequestAsExternalBug") = 1

\* ------------------------------------------------------------------ C8
\* The run has read the labels and wants them as the run before left them.
SameAsBefore ==
    /\ prev # Nil
    /\ CallsNamed("GetIssueLabels") # {}
    /\ needsValidLabel = Deref(prev).needsValidLabel
    /\ needsInvalidLabel = Deref(prev).needsInvalidLabel
LabelsRead == \E i \in CallsNamed("GetIssueLabels") : calls[i].ok
WritesOn(label) == {i \in LabelWrites : calls[i].arg = label}

\* C8 as stated: once a run has reconciled the labels, a second run for the
\* same Verdict with nothing changed in between issues no AddLabel and no
\* RemoveLabel; and a run issues at most one label write per label, only
\* when the label's presence differs from the desired one.
C8_SecondRunWritesNothing ==
    /\ SameAsBefore => LabelWrites = {}
    /\ \A label \in {ValidBug, InvalidBug} : Cardinality(WritesOn(label)) <= 1
    /\ pc = "ValidBugLabel" => (ValidBug \in labels) # needsValidLabel
    /\ pc = "InvalidBugLabel" => (InvalidBug \in labels) # needsInvalidLabel

\* C8, amended: the same when the run's GetIssueLabels succeeds.  (When it
\* fails the run takes no label as present and adds the label it wants
\* whether or not the pull request carries it.)
C8_SecondRunWritesNothingWhenRead ==
    /\ (SameAsBefore /\ LabelsRead) => LabelWrites = {}
    /\ \A label \in {ValidBug, InvalidBug} : Cardinality(WritesOn(label)) <= 1
    /\ (LabelsRead /\ pc = "ValidBugLabel") => (ValidBug \in labels) # needsValidLabel
    /\ (LabelsRead /\ pc = "InvalidBugLabel") => (InvalidBug \in labels) # needsInvalidLabel

\* A second run for a valid Verdict, after a run that reconciled the labels
\* for a valid Verdict, has ended without a label write.
C8_SecondRunDone ==
    /\ Handled
    /\ verdict # Nil
    /\ SameAsBefore
    /\ LabelsRead
    /\ needsValidLabel
    /\ ValidBug \in labels
    /\ LabelWrites = {}

\* ------------------------------------------------------------------ C9
\* A refresh comment was created on a pull request whose title references
\* no bug, under a policy that leaves ValidateByDefault unset.
RefreshWithoutBug ==
    /\ gce # Nil
    /\ Deref(gce).Action = "created"
    /\ Deref(gce).IsPR
    /\ refreshCommandMatch(Deref(gce).Body)
    /\ options.ValidateByDefault = Nil
    /\ pr # Nil
    /\ titleMatch(Deref(pr).Title) = Nil

\* C9 as stated: such a comment produces no event and no comment.
C9_RefreshWithoutBugIsSilent ==
    RefreshWithoutBug => (e = Nil /\ Count("CreateComment") = 0)

\* C9, amended: such a comment produces an event with the missing flag
\* set; on a pull request that is not merged the run ends with one comment,
\* telling that no bug is referenced; on a merged one it posts none.
C9_RefreshWithoutBugIsHandled ==
    RefreshWithoutBug =>
        /\ e # Nil
        /\ Deref(e).missing
        /\ (pc = "done" /\ ~Deref(e).merged) =>
            /\ Count("CreateComment") = 1
            /\ \A i \in CallsNamed("CreateComment") : calls[i].arg.kind = "missing"
        /\ Deref(e).merged => Count("CreateComment") = 0

\* The comment telling that no bug is referenced has been posted.
C9_NoBugCommentPosted ==
    /\ RefreshWithoutBug
    /\ pc = "done"
    /\ \E i \in CallsNamed("CreateComment") : calls[i].ok /\ calls[i].arg.kind = "missing"

\* ------------------------------------------------------------------ C10
\* Whether a title references a bug, and which.
References(title) == titleMatch(title) # Nil /\ ~Atoi(Deref(titleMatch(title))).err
BugIdOf(title) == Atoi(Deref(titleMatch(title))).val

\* C10: digestPR yields an event whenever the previous title referenced a
\* bug and the current title references a different bug or none, for every
\* previous bug id (0 included) and every setting of ValidateByDefault.
C10_TitleChangeIsHandled ==
    (/\ pc = "done"
     /\ pre # Nil
     /\ Deref(pre).Action \in {"opened", "reopened", "edited"}
            \/ (Deref(pre).Action = "closed" /\ Deref(pre).Merged)
     /\ Deref(pre).Changes.ok
     /\ References(Deref(pre).Changes.from)
     /\ \/ titleMatch(Deref(pre).Title) = Nil
        \/ /\ References(Deref(pre).Title)
           /\ BugIdOf(Deref(pre).Title) # BugIdOf(Deref(pre).Changes.from)) =>
        /\ e # Nil
        /\ Deref(e).missing = (titleMatch(Deref(pre).Title) = Nil)

\* ------------------------------------------------------------------ C11
\* digestPR has run on an event; the event it ran on.
Digested == pc = "done" /\ pre # Nil
\* The previous and the current title reference the same bug.
SameBug(event) ==
    /\ event.Changes.ok
    /\ References(event.Changes.from)
    /\ References(event.Title)
    /\ BugIdOf(event.Changes.from) = BugIdOf(event.Title)

\* C11: when the previous and the current title of a pull request event
\* reference the same bug id, digestPR yields no event and no error, and
\* the handler returns without a call, whatever the action and the
\* ValidateByDefault flag.
C11_SameBugIsSuppressed ==
    (Digested /\ SameBug(Deref(pre))) => (e = Nil /\ ret = "nil" /\ calls = << >>)

\* An edit from "bug 01:" to "Bug 1:" under ValidateByDefault = true was
\* digested to no event.
C11_SameBugRespelled ==
    /\ Digested
    /\ Deref(pre).Action = "edited"
    /\ Deref(pre).Title = <<"Bug ", "1", ":", "fix">>
    /\ Deref(pre).Changes.from = <<"bug ", "01", ":", "fix">>
    /\ options.ValidateByDefault = Ptr(TRUE)
    /\ e = Nil

\* ------------------------------------------------------------------ C12
\* The previous title is absent, does not decode or references no bug.
NoPreviousBug(event) ==
    \/ ~event.Changes.ok
    \/ ~References(event.Changes.from)
\* The digits the title pattern matched do not parse.
Unparsed(title) == titleMatch(title) # Nil /\ Atoi(Deref(titleMatch(title))).err
ByDefault == options.ValidateByDefault # Nil /\ Deref(options.ValidateByDefault)

\* C12 as stated: on an action digestPR acts on, when the previous title is
\* absent, unparseable or references no bug, digestPR yields no event if
\* ValidateByDefault is not true and the current title has no bug
\* reference; with a current bug reference, or with ValidateByDefault true,
\* it yields the event.
C12_EventIffReferenceOrDefault ==
    (Digested /\ ActsOn(Deref(pre)) /\ NoPreviousBug(Deref(pre))) =>
        (e # Nil) = (titleMatch(Deref(pre).Title) # Nil \/ ByDefault)

\* C12 for the current titles whose digits parse or that have no match; and
\* what digestPR does when the digits the pattern matched do not parse: it
\* returns an error and no event, whatever the flag.
C12_EventIffParsedReferenceOrDefault ==
    (Digested /\ ActsOn(Deref(pre)) /\ NoPreviousBug(Deref(pre))) =>
        IF Unparsed(Deref(pre).Title)
        THEN e = Nil /\ ret = "err"
        ELSE /\ (e # Nil) = (References(Deref(pre).Title) \/ ByDefault)
             /\ ret = "nil"
             /\ e # Nil => Deref(e).missing = (titleMatch(Deref(pre).Title) = Nil)

\* A pull request opened without a bug reference under ValidateByDefault =
\* true was digested to an event with the missing flag set.
C12_DefaultKeepsMissing ==
    /\ Digested
    /\ Deref(pre).Action = "opened"
    /\ ~Deref(pre).Changes.ok
    /\ titleMatch(Deref(pre).Title) = Nil
    /\ ByDefault
    /\ e # Nil
    /\ Deref(e).missing

\* ------------------------------------------------------------------ C13
\* C13: digestPR yields an event only for the actions opened, reopened,
\* edited, and closed with the pull request merged; every other action
\* (closed without a merge included) yields no event and no error.
C13_OnlyTitleOrMergeActions ==
    Digested =>
        /\ e # Nil =>
            \/ Deref(pre).Action \in {"opened", "reopened", "edited"}
            \/ Deref(pre).Action = "closed" /\ Deref(pre).Merged
        /\ ~(\/ Deref(pre).Action \in {"opened", "reopened", "edited"}
             \/ Deref(pre).Action = "closed" /\ Deref(pre).Merged) =>
            (e = Nil /\ ret = "nil")

\* A close without a merge of a pull request that references a bug, under
\* ValidateByDefault = true, was digested to no event.
C13_CloseWithoutMerge ==
    /\ Digested
    /\ Deref(pre).Action = "closed"
    /\ ~Deref(pre).Merged
    /\ References(Deref(pre).Title)
    /\ ByDefault
    /\ e = Nil
    /\ ret = "nil"

\* ------------------------------------------------------------------ C14
\* Some line of the body is one of the given command lines.
HasLine(body, lines) == \E i \in 1..Len(body) : body[i] \in lines
\* A created comment with a command line.
IsCommand(c) ==
    /\ c.Action = "created"
    /\ HasLine(c.Body, RefreshLines) \/ HasLine(c.Body, QALines)

\* C14: digestComment yields an event or posts a reply only for a created
\* comment whose body has a line that is the refresh or the assign-qa
\* command; for every other comment it makes no call and yields nothing;
\* the event's assign flag is set exactly when assign-qa is the command
\* matched (refresh is tried first).
C14_OnlyCreatedCommands ==
    gce # Nil =>
        /\ ~IsCommand(Deref(gce)) => (calls = << >> /\ e = Nil /\ pc = "done" /\ ret = "nil")
        /\ e # Nil =>
            Deref(e).assign = (/\ HasLine(Deref(gce).Body, QALines)
                               /\ ~HasLine(Deref(gce).Body, RefreshLines))

\* A comment carrying both commands gave a refresh event; and a comment
\* that only quotes the command inside a line was dropped without a call.
C14_BothCommands ==
    /\ gce # Nil
    /\ HasLine(Deref(gce).Body, QALines)
    /\ HasLine(Deref(gce).Body, RefreshLines)
    /\ e # Nil
    /\ ~Deref(e).assign

\* ------------------------------------------------------------------ C15
\* C15: a command comment on an issue that is not a pull request gets
\* exactly one reply, telling that only pull requests are supported, and
\* nothing else: no event, no fetch of a pull request, no label call and no
\* tracker call.
C15_IssuesGetOneReply ==
    (gce # Nil /\ IsCommand(Deref(gce)) /\ ~Deref(gce).IsPR) =>
        /\ e = Nil
        /\ \A i \in 1..Len(calls) :
            calls[i].call = "CreateComment" /\ calls[i].arg.kind = "issuesUnsupported"
        /\ Len(calls) <= 1
        /\ pc = "done" => Len(calls) = 1
        /\ pc \in {"CreateComment", "done"}

\* The reply to an assign-qa comment on an issue has been posted.
C15_IssueReplied ==
    /\ gce # Nil
    /\ ~Deref(gce).IsPR
    /\ HasLine(Deref(gce).Body, QALines)
    /\ pc = "done"
    /\ ret = "nil"
    /\ Count("CreateComment") = 1

\* ------------------------------------------------------------------ C16
\* validateBug has returned its verdict on bug and dependents.
Validated == pc = "done" /\ verdict # Nil /\ bug # Nil
\* The policy configures none of the five constraints.
NoConstraint ==
    /\ options.IsOpen = Nil
    /\ options.TargetRelease = Nil
    /\ options.ValidStates = Nil
    /\ options.DependentBugStates = Nil
    /\ options.DependentBugTargetRelease = Nil

\* C16 as stated: under a policy with no constraint validateBug returns
\* valid with no error and no validation, for every bug and every
\* dependents list.
C16_NoConstraintNoEntry ==
    (Validated /\ NoConstraint) =>
        /\ Deref(verdict).valid
        /\ Deref(verdict).errors = << >>
        /\ Deref(verdict).validations = << >>

\* C16, amended: under a policy with no constraint validateBug returns
\* valid with no error, and with no validation when the dependents list is
\* empty; for a dependents list that is not empty its one validation is
\* that the bug has dependents.
C16_NoConstraintOnlyDependentsNoted ==
    (Validated /\ NoConstraint) =>
        /\ Deref(verdict).valid
        /\ Deref(verdict).errors = << >>
        /\ Deref(verdict).validations =
            (IF dependents = << >> THEN << >>
             ELSE <<Entry("hasDependents", Deref(bug).ID, "match")>>)

\* validateBug was given dependents under a policy with no constraint.
C16_DependentsUnderNoConstraint ==
    /\ Validated
    /\ NoConstraint
    /\ Len(dependents) = MaxDeps
    /\ Deref(verdict).valid
    /\ Len(Deref(verdict).validations) = 1

\* ------------------------------------------------------------------ C17
\* The entries of the verdict, validations first.
VerdictEntries == Deref(verdict).validations \o Deref(verdict).errors
\* The number of entries of list l for check c on bug id.
EntriesFor(l, c, id) == Cardinality({i \in 1..Len(l) : l[i].check = c /\ l[i].bug = id})
\* What an empty dependents list leaves unsatisfied under the policy.
Unsatisfied ==
    IF options.DependentBugStates # Nil /\ options.DependentBugTargetRelease # Nil
    THEN "release and states"
    ELSE IF options.DependentBugStates # Nil THEN "states"
    ELSE "release"

\* C17: under a policy that requires a state or a target release of the
\* dependents, validateBug on an empty dependents list returns invalid, with
\* one error that names the requirement left unsatisfied, whatever the
\* other checks yield.
C17_NoDependentsIsAnError ==
    (/\ Validated
     /\ options.DependentBugStates # Nil \/ options.DependentBugTargetRelease # Nil
     /\ dependents = << >>) =>
        /\ ~Deref(verdict).valid
        /\ \E i \in 1..Len(Deref(verdict).errors) :
            Deref(verdict).errors[i] = Entry("noDependents", Deref(bug).ID, Unsatisfied)
        /\ EntriesFor(Deref(verdict).errors, "noDependents", Deref(bug).ID) = 1

\* Every other check passed and the missing dependents alone made the bug
\* invalid.
C17_OnlyDependentsMissing ==
    /\ Validated
    /\ options.DependentBugStates # Nil
    /\ options.DependentBugTargetRelease = Nil
    /\ options.IsOpen # Nil
    /\ options.ValidStates # Nil
    /\ dependents = << >>
    /\ Len(Deref(verdict).errors) = 1
    /\ Len(Deref(verdict).validations) = 2

\* ------------------------------------------------------------------ C18
\* The outcome of each constraint of the policy on bug and dependents; an
\* unconfigured constraint holds.
TargetsRelease(b, release) == Len(b.TargetRelease) > 0 /\ b.TargetRelease[1] = release
OpenHolds == options.IsOpen # Nil => Deref(options.IsOpen) = Deref(bug).IsOpen
ReleaseHolds ==
    options.TargetRelease # Nil => TargetsRelease(Deref(bug), Deref(options.TargetRelease))
StateHolds ==
    options.ValidStates # Nil =>
        \/ \E i \in 1..Len(Deref(options.ValidStates)) :
                Matches(Deref(options.ValidStates)[i], Deref(bug))
        \/ /\ options.StateAfterValidation # Nil
           /\ Matches(Deref(options.StateAfterValidation), Deref(bug))
DependentStatesHold ==
    options.DependentBugStates # Nil =>
        /\ dependents # << >>
        /\ \A i \in 1..Len(dependents) :
            \E j \in 1..Len(Deref(options.DependentBugStates)) :
                Matches(Deref(options.DependentBugStates)[j], dependents[i])
DependentReleasesHold ==
    options.DependentBugTargetRelease # Nil =>
        /\ dependents # << >>
        /\ \A i \in 1..Len(dependents) :
            TargetsRelease(dependents[i], Deref(options.DependentBugTargetRelease))

\* C18: for every input of validateBug, valid is true iff errors is empty,
\* and valid is the conjunction of the outcomes of the configured
\* constraints.
C18_ValidIffNoErrors ==
    Validated =>
        /\ Deref(verdict).valid <=> Deref(verdict).errors = << >>
        /\ Deref(verdict).valid <=>
            (/\ OpenHolds
             /\ ReleaseHolds
             /\ StateHolds
             /\ DependentStatesHold
             /\ DependentReleasesHold)

\* All five constraints are configured and hold: the bug is valid.
C18_AllFiveHold ==
    /\ Validated
    /\ options.IsOpen # Nil
    /\ options.TargetRelease # Nil
    /\ options.ValidStates # Nil
    /\ options.DependentBugStates # Nil
    /\ options.DependentBugTargetRelease # Nil
    /\ Len(dependents) = MaxDeps
    /\ Deref(verdict).valid
    /\ Deref(verdict).errors = << >>

\* ------------------------------------------------------------------ C19
\* C19: validateBug never stops at a failed check: each of the open, target
\* release and status constraints that is configured leaves exactly one
\* entry in validations or errors, and each configured dependent constraint
\* leaves exactly one entry for each dependent.
C19_EveryCheckLeavesOneEntry ==
    Validated =>
        /\ options.IsOpen # Nil => EntriesFor(VerdictEntries, "open", Deref(bug).ID) = 1
        /\ options.TargetRelease # Nil =>
            EntriesFor(VerdictEntries, "targetRelease", Deref(bug).ID) = 1
        /\ options.ValidStates # Nil => EntriesFor(VerdictEntries, "state", Deref(bug).ID) = 1
        /\ options.DependentBugStates # Nil =>
            \A i \in 1..Len(dependents) :
                EntriesFor(VerdictEntries, "dependentState", dependents[i].ID) = 1
        /\ options.DependentBugTargetRelease # Nil =>
            \A i \in 1..Len(dependents) :
                EntriesFor(VerdictEntries, "dependentTargetRelease", dependents[i].ID) = 1

\* The first check failed and the four that follow are all in the verdict.
C19_FirstFailedRestRan ==
    /\ Validated
    /\ options.IsOpen # Nil
    /\ ~OpenHolds
    /\ options.TargetRelease # Nil
    /\ options.ValidStates # Nil
    /\ options.DependentBugStates # Nil
    /\ options.DependentBugTargetRelease # Nil
    /\ Len(dependents) = MaxDeps
    /\ Len(VerdictEntries) = 4 + 2 * MaxDeps
    /\ Len(Deref(verdict).errors) = 1

\* ------------------------------------------------------------------ C20
\* The status check passed: its entry is among the validations.
StatusCheckPassed == EntriesFor(Deref(verdict).validations, "state", Deref(bug).ID) = 1

\* C20: when valid states are configured, the status check passes iff the
\* bug matches one of the valid states or the post-validation state; so a
\* bug already in the post-validation state passes.
C20_PostValidationStateIsValid ==
    (Validated /\ options.ValidStates # Nil) =>
        /\ StatusCheckPassed <=> StateHolds
        /\ (/\ options.StateAfterValidation # Nil
            /\ Matches(Deref(options.StateAfterValidation), Deref(bug))) => StatusCheckPassed

\* A bug in the post-validation state, which is not among the valid states
\* listed, passed the status check.
C20_AdvancedBugPasses ==
    /\ Validated
    /\ options.ValidStates = Ptr(<<New>>)
    /\ options.StateAfterValidation = Ptr(Post)
    /\ Deref(bug).Status = "POST"
    /\ StatusCheckPassed
    /\ Deref(verdict).valid

\* ------------------------------------------------------------------ C21
\* The run is handleMerge's on an event it acts on: the event is merged and
\* references a bug, and the policy has a state after merge.
Merging == e # Nil /\ Deref(e).merged /\ ~Deref(e).missing /\ options.StateAfterMerge # Nil
\* The policy defines valid states or a state after validation.
Guarded == options.ValidStates # Nil \/ options.StateAfterValidation # Nil
\* The bug handleMerge fetched matches one of the valid states or the state
\* after validation.
FetchedAllowed ==
    \/ /\ options.ValidStates # Nil
       /\ \E i \in 1..Len(Deref(options.ValidStates)) :
            Matches(Deref(options.ValidStates)[i], Deref(bug))
    \/ /\ options.StateAfterValidation # Nil
       /\ Matches(Deref(options.StateAfterValidation), Deref(bug))
\* The calls handle made: those of the run after digestComment's fetch of
\* the pull request.
HandleCalls == IF gce # Nil /\ calls # << >> THEN Tail(calls) ELSE calls
\* The comments of the run of a given kind.
CommentsOfKind(kind) ==
    {i \in CallsNamed("CreateComment") : calls[i].arg.kind = kind}

\* C21: in handleMerge under a policy with valid states or a state after
\* validation the first call fetches the bug again; when the bug fetched
\* matches none of them the run posts one refusal comment and makes no
\* other call: it does not list the links, fetch a linked pull request or
\* update the bug.
C21_UnknownStateIsNotAdvanced ==
    (Merging /\ Guarded) =>
        /\ HandleCalls # << >> => HandleCalls[1].call = "GetBug"
        /\ pc # "MergeGetBug" => HandleCalls # << >>
        /\ (HandleCalls # << >> /\ HandleCalls[1].ok) => bug # Nil
        /\ (bug # Nil /\ ~FetchedAllowed) =>
            /\ Count("GetExternalBugPRsOnBug") = 0
            /\ Count("GetPullRequest") <= (IF gce # Nil THEN 1 ELSE 0)
            /\ Count("UpdateBug") = 0
            /\ pc \in {"CreateComment", "done"}
            /\ response.kind = "unrecognizedState"
            /\ pc = "done" =>
                (Count("CreateComment") = 1 /\ CommentsOfKind("unrecognizedState") # {})

\* The refusal has been posted for a bug a human moved on.
C21_Refused ==
    /\ Merging
    /\ Guarded
    /\ pc = "done"
    /\ ret = "nil"
    /\ bug # Nil
    /\ ~FetchedAllowed
    /\ CommentsOfKind("unrecognizedState") # {}

\* ------------------------------------------------------------------ C22
\* Call i of the run is a failed fetch of the referenced bug, or a failed
\* update of it.
FailedFetch(i) ==
    calls[i].call = "GetBug" /\ ~calls[i].ok /\ calls[i].arg = Deref(e).bugId
FailedUpdate(i) == calls[i].call = "UpdateBug" /\ ~calls[i].ok
\* The comments getBug and the two updates post on a failure.
FetchFailures == {getBugFailure(outcome) : outcome \in GetBugOutcomes \ {"ok"}}
UpdateFailures ==
    {formatError("updating to the StateAfterValidation state"),
     formatError("updating to the StateAfterMerge state")}

\* C22: when the fetch of the referenced bug fails, not found or otherwise,
\* or UpdateBug fails, the only call that follows in the run is the one
\* CreateComment that tells the failure: no tracker call, no validation, no
\* label call and no merge step; and the comment for a bug not found is not
\* the comment for another error.
C22_FailureStopsTheRun ==
    /\ getBugFailure("notFound") # getBugFailure("error")
    /\ e # Nil =>
        \A i \in 1..Len(calls) :
            (FailedFetch(i) \/ FailedUpdate(i)) =>
                /\ Len(calls) <= i + 1
                /\ pc \in {"CreateComment", "done"}
                /\ pc = "done" <=> Len(calls) = i + 1
                /\ Len(calls) = i + 1 => calls[i + 1] .call = "CreateComment"
                /\ response \in (IF FailedFetch(i) THEN FetchFailures ELSE UpdateFailures)
                /\ Len(calls) = i + 1 => calls[i + 1].arg = response
                /\ FailedFetch(i) => verdict = Nil
                /\ LabelCalls \cap {calls[j].call : j \in 1..Len(calls)} = {}

\* The comment for a bug the tracker does not have has been posted.
C22_NotFoundReported ==
    /\ e # Nil
    /\ pc = "done"
    /\ ret = "nil"
    /\ \E i \in 1..Len(calls) : FailedFetch(i)
    /\ CommentsOfKind("notFound") # {}

\* ------------------------------------------------------------------ C23
\* The reads of the tracker and of the review host.
Reads == {"GetBug", "GetExternalBugPRsOnBug", "GetPullRequest", "GetIssueLabels"}
\* Some read of the run failed; every comment of the run was posted.
ReadFailed == \E i \in 1..Len(calls) : calls[i].call \in Reads /\ ~calls[i].ok
CommentsPosted == \A i \in CallsNamed("CreateComment") : calls[i].ok

\* C23: a failed read of the tracker or of the review host (GetBug,
\* GetExternalBugPRsOnBug, GetPullRequest, GetIssueLabels) never makes
\* handlePullRequest or handleGenericComment return an error when the
\* comments are posted.
C23_ReadFailureIsNotReturned ==
    (pc = "done" /\ ReadFailed /\ CommentsPosted) => ret = "nil"

\* ------------------------------------------------------------------ C24
\* Call i of the run is a failed directory query.
FailedQuery(i) == calls[i].call = "Query" /\ ~calls[i].ok
\* The run ended on a rejection by the rules: an invalid bug (missing
\* dependents among the reasons) or a linked pull request not merged.
Rejected ==
    /\ Handled
    /\ \/ verdict # Nil /\ ~Deref(verdict).valid
       \/ response.kind = "someMerged"
    /\ CommentsOfKind(response.kind) # {}

\* C24 as stated: a failed directory query makes the handler return an
\* error, while a rejection by the rules ends with a nil error when the
\* comment is posted.
C24_QueryFailureIsReturned ==
    /\ (Handled /\ \E i \in 1..Len(calls) : FailedQuery(i)) => ret = "err"
    /\ (Rejected /\ CommentsPosted) => ret = "nil"

\* C24, amended: a failed directory query ends the run with the error
\* comment that names the query, and the handler returns what posting that
\* comment returns: nil when it is posted; a rejection by the rules ends
\* with a nil error when the comment is posted.
C24_QueryFailureIsCommented ==
    /\ e # Nil =>
        \A i \in 1..Len(calls) :
            FailedQuery(i) =>
                /\ Len(calls) <= i + 1
                /\ response = formatError("querying GitHub for users with public email")
                /\ pc = "done" =>
                    /\ Len(calls) = i + 1
                    /\ calls[i + 1] = Call("CreateComment", response, ret = "nil")
    /\ (Rejected /\ CommentsPosted) => ret = "nil"

\* The directory query failed, the error comment was posted and the
\* handler returned nil.
C24_QueryFailureReported ==
    /\ Handled
    /\ \E i \in 1..Len(calls) : FailedQuery(i)
    /\ CommentsPosted
    /\ CommentsOfKind("error") # {}
    /\ ret = "nil"

\* ------------------------------------------------------------------ C25
\* C25: when the digits the title pattern matched do not parse as an
\* integer, digestPR and digestComment take the pull request for one that
\* references no bug: they return no error, and the event they yield has
\* the missing flag set; digestComment always yields it.
C25_UnparsedIsMissing ==
    /\ (Digested /\ ActsOn(Deref(pre)) /\ Unparsed(Deref(pre).Title)) =>
        /\ ret = "nil"
        /\ e # Nil => Deref(e).missing
    /\ (pc = "done" /\ gce # Nil /\ pr # Nil /\ Unparsed(Deref(pr).Title)) =>
        /\ ret = "nil"
        /\ e # Nil
        /\ Deref(e).missing

\* ------------------------------------------------------------------ C26
\* The steps of the label stage, and whether the run has reached it.
LabelStage == {"GetIssueLabels", "ValidBugLabel", "InvalidBugLabel"}
LabelStageReached == CallsNamed("GetIssueLabels") # {}
\* The run that reached the label stage has posted, or is about to post,
\* the response it had composed, and returns what posting it returns.
CommentFollowsLabels ==
    LabelStageReached =>
        /\ pc \in LabelStage \cup {"CreateComment", "done"}
        /\ response.kind \in {"valid", "invalid", "missing"}
        /\ pc = "done" =>
            /\ Count("CreateComment") = 1
            /\ calls[Len(calls)] = Call("CreateComment", response, ret = "nil")
\* A label call, failed or not, leaves the response and the value to
\* return as they were and leads to the next label call or to the comment.
LabelCallKeepsResponse ==
    pc \in LabelStage =>
        /\ response' = response
        /\ ret' = ret
        /\ pc' \in LabelStage \cup {"CreateComment"}

\* C26: in the validation path, once the label stage is reached, no failure
\* of GetIssueLabels, AddLabel or RemoveLabel keeps the response comment
\* from being posted, changes its content or changes what handle returns.
C26_LabelFailuresAreSwallowed ==
    /\ []CommentFollowsLabels
    /\ [][LabelCallKeepsResponse]_vars

\* Every label call of the run failed, the response was posted and handle
\* returned nil.
C26_AllLabelCallsFailed ==
    /\ pc = "done"
    /\ ret = "nil"
    /\ LabelStageReached
    /\ LabelWrites # {}
    /\ \A i \in 1..Len(calls) : calls[i].call \in LabelCalls => ~calls[i].ok
    /\ CommentsOfKind("invalid") # {}

\* ------------------------------------------------------------------ C27
\* The directory queries of the run that succeeded.
Answered == {i \in CallsNamed("Query") : calls[i].ok}

\* C27: on the QA assignment path the response carries an assignment
\* directive iff the directory query returned exactly one user, and the
\* directive names that user's login; with no user or with several the
\* response tells so and assigns nobody.
C27_AssignsTheOnlyMatch ==
    /\ response.assign # Nil =>
        \E i \in Answered :
            calls[i].arg.edges = <<Deref(response.assign)>>
    /\ \A i \in Answered :
        LET edges == calls[i].arg.edges IN
        /\ Len(edges) = 1 => (response.qa = "assign" /\ response.assign = Ptr(edges[1]))
        /\ Len(edges) = 0 => (response.qa = "noUser" /\ response.assign = Nil)
        /\ Len(edges) > 1 => (response.qa = "multipleUsers" /\ response.assign = Nil)
    /\ \A i \in CallsNamed("CreateComment") : calls[i].arg.assign = response.assign

\* The query found alice alone and the comment posted assigns her.
C27_AliceAssigned ==
    /\ pc = "done"
    /\ \E i \in Answered : calls[i].arg.edges = <<"alice">>
    /\ \E i \in CallsNamed("CreateComment") :
        calls[i].ok /\ calls[i].arg.assign = Ptr("alice")

\* ------------------------------------------------------------------ C28
\* The calls on the tracker.
TrackerCalls == {"GetBug", "UpdateBug", "AddPullRequestAsExternalBug", "GetExternalBugPRsOnBug"}
CallNames(log) == {log[i].call : i \in 1..Len(log)}

\* C28: the validator and the merge tracker exclude each other.  On a merged
\* event handle never validates the bug, never reads or writes a label and
\* never links the pull request, and it makes no call at all when the
\* policy has no state after merge or the event references no bug; on an
\* event that is not merged it never lists the bug's links and no update it
\* sends is the one to the state after merge.
C28_ValidatorOrMergeTracker ==
    e # Nil =>
        IF Deref(e).merged
        THEN /\ verdict = Nil
             /\ CallNames(HandleCalls) \cap (LabelCalls \cup {"AddPullRequestAsExternalBug", "Query"}) = {}
             /\ pc \notin LabelStage \cup {"GetBug", "GetDependent", "UpdateBug",
                                          "AddPullRequestAsExternalBug", "Query"}
             /\ (options.StateAfterMerge = Nil \/ Deref(e).missing) =>
                    (HandleCalls = << >> /\ pc = "done" /\ ret = "nil")
        ELSE /\ "GetExternalBugPRsOnBug" \notin CallNames(HandleCalls)
             /\ Count("GetPullRequest") = (IF gce # Nil THEN 1 ELSE 0)
             /\ pc \notin {"MergeGetBug", "GetExternalBugPRsOnBug", "MergeGetPullRequest",
                           "MergeUpdateBug"}
             /\ \A i \in CallsNamed("UpdateBug") :
                    /\ options.StateAfterValidation # Nil
                    /\ calls[i].arg = Deref(options.StateAfterValidation)
                    /\ options.StateAfterMerge # Nil =>
                        calls[i].arg # Deref(AsBugUpdate(options.StateAfterMerge, Nil))

\* A refresh on a merged pull request whose title references no bug, under
\* a policy with a state after merge, ended without a call on the tracker.
C28_MergedWithoutReference ==
    /\ Handled
    /\ Deref(e).merged
    /\ Deref(e).missing
    /\ options.StateAfterMerge # Nil
    /\ ret = "nil"
    /\ CallNames(calls) \cap TrackerCalls = {}

\* ------------------------------------------------------------------ C29
\* The title a digest read: the event's for digestPR, the fetched pull
\* request's for digestComment.
TitleRead == IF pre # Nil THEN Deref(pre).Title ELSE Deref(pr).Title
TitleDigested == pc = "done" /\ e # Nil /\ (pre # Nil \/ pr # Nil)
\* The places of the title where "Bug <digits>:" stands.
Occurrences(title) ==
    {i \in 1..(Len(title) - 2) :
        title[i] \in BugWords /\ title[i + 1] \in DigitTokens /\ title[i + 2] = Colon}
First(places) == CHOOSE i \in places : \A j \in places : i <= j

\* C29 as stated: the bug id is taken from the title only when
\* "Bug <digits>:" stands at its very start; a title where other text comes
\* before the pattern is marked missing.
C29_PatternAtStartOnly ==
    TitleDigested => (~Deref(e).missing <=> 1 \in Occurrences(TitleRead))

\* C29, amended: the bug id is taken from the first place of the title
\* where "Bug <digits>:" stands, whatever text comes before it; the title
\* is marked missing only when the pattern stands nowhere in it.
C29_PatternAnywhere ==
    TitleDigested =>
        /\ Deref(e).missing <=> Occurrences(TitleRead) = {}
        /\ ~Deref(e).missing =>
            Deref(e).bugId = Atoi(TitleRead[First(Occurrences(TitleRead)) + 1]).val

\* The title "fix Bug 1:" was digested to an event for bug 1.
C29_PrefixedReference ==
    /\ TitleDigested
    /\ TitleRead = <<"fix", "Bug ", "1", ":">>
    /\ ~Deref(e).missing
    /\ Deref(e).bugId = 1

\* ------------------------------------------------------------------ C30
\* The entries of the verdict for the target release of the bug.
ReleaseEntries(l) == {l[i] : i \in {j \in 1..Len(l) : l[j].check = "targetRelease"}}

\* C30: with a target release configured validateBug compares the first
\* entry of the bug's target release list alone: the check passes iff the
\* list is not empty and its first entry is the release required; an empty
\* list is reported with another error than a first entry that differs.
C30_FirstTargetReleaseOnly ==
    (Validated /\ options.TargetRelease # Nil) =>
        LET list == Deref(bug).TargetRelease
            required == Deref(options.TargetRelease)
            passed == ReleaseEntries(Deref(verdict).validations)
            failed == ReleaseEntries(Deref(verdict).errors)
        IN  /\ passed # {} <=> (Len(list) > 0 /\ list[1] = required)
            /\ passed # {} => failed = {}
            /\ Len(list) = 0 => failed = {Entry("targetRelease", Deref(bug).ID, "unset")}
            /\ (Len(list) > 0 /\ list[1] # required) =>
                failed = {Entry("targetRelease", Deref(bug).ID, "mismatch")}
            /\ Entry("targetRelease", Deref(bug).ID, "unset")
                # Entry("targetRelease", Deref(bug).ID, "mismatch")

\* A bug whose second target release is the one required failed the check.
C30_SecondEntryIgnored ==
    /\ Validated
    /\ options.TargetRelease = Ptr("4.1")
    /\ Deref(bug).TargetRelease = <<"4.2", "4.1">>
    /\ ReleaseEntries(Deref(verdict).errors) # {}
    /\ ~Deref(verdict).valid

\* ------------------------------------------------------------------ C31
\* Dependent d is in one of the states required of dependents; it targets
\* the release required of them.
DependentMatches(d) ==
    \E j \in 1..Len(Deref(options.DependentBugStates)) :
        Matches(Deref(options.DependentBugStates)[j], d)
DependentTargets(d) == TargetsRelease(d, Deref(options.DependentBugTargetRelease))

\* C31: with a state (or target release) required of the dependents and a
\* non-empty dependents list, each dependent leaves its own entry, a
\* validation iff it matches and an error otherwise; the check passes iff
\* every dependent matches, and one dependent that does not makes the
\* verdict invalid.
C31_EveryDependentMustMatch ==
    (Validated /\ dependents # << >>) =>
        /\ options.DependentBugStates # Nil =>
            /\ \A i \in 1..Len(dependents) :
                /\ EntriesFor(Deref(verdict).validations, "dependentState", dependents[i].ID)
                    = (IF DependentMatches(dependents[i]) THEN 1 ELSE 0)
                /\ EntriesFor(Deref(verdict).errors, "dependentState", dependents[i].ID)
                    = (IF DependentMatches(dependents[i]) THEN 0 ELSE 1)
            /\ (\E i \in 1..Len(dependents) : ~DependentMatches(dependents[i])) =>
                ~Deref(verdict).valid
        /\ options.DependentBugTargetRelease # Nil =>
            /\ \A i \in 1..Len(dependents) :
                /\ EntriesFor(Deref(verdict).validations, "dependentTargetRelease",
                              dependents[i].ID)
                    = (IF DependentTargets(dependents[i]) THEN 1 ELSE 0)
                /\ EntriesFor(Deref(verdict).errors, "dependentTargetRelease", dependents[i].ID)
                    = (IF DependentTargets(dependents[i]) THEN 0 ELSE 1)
            /\ (\E i \in 1..Len(dependents) : ~DependentTargets(dependents[i])) =>
                ~Deref(verdict).valid

\* The first dependent matched, the last one did not, and the last one
\* alone made the bug invalid.
C31_OneDependentFails ==
    /\ Validated
    /\ options.DependentBugStates # Nil
    /\ Len(dependents) = MaxDeps
    /\ DependentMatches(dependents[1])
    /\ ~DependentMatches(dependents[MaxDeps])
    /\ Len(Deref(verdict).errors) = 1
    /\ ~Deref(verdict).valid

\* ------------------------------------------------------------------ C32
\* The policy requires a state or a target release of the dependents.
DependentConstraint ==
    options.DependentBugStates # Nil \/ options.DependentBugTargetRelease # Nil
\* The checks of validateBug that are about the dependents.
DependentChecks ==
    {"dependentState", "dependentTargetRelease", "noDependents", "hasDependents"}
\* The checks the verdict of the run has entries for.
ChecksRecorded == {VerdictEntries[i].check : i \in 1..Len(VerdictEntries)}
\* handle holds the verdict on the bug it fetched.
Judged == e # Nil /\ ~Deref(e).merged /\ verdict # Nil /\ bug # Nil

\* C32 as stated: when the bug has dependencies and the policy has no
\* dependent constraint, the verdict of the event records that the bug has
\* dependents, as a validation; when the policy has none and the bug has no
\* dependency, nothing about dependents is recorded.
C32_PresenceIsRecorded ==
    (Judged /\ ~DependentConstraint) =>
        IF Deref(bug).DependsOn # << >>
        THEN "hasDependents" \in ChecksRecorded
        ELSE ChecksRecorded \cap DependentChecks = {}

\* C32, amended: under a policy with no dependent constraint handle fetches
\* no dependency and the verdict of the event records nothing about
\* dependents, whether the bug has dependencies or not; under a policy with
\* one, the presence of dependents is recorded as a validation iff the bug
\* has dependencies.
C32_PresenceIsRecordedWhenFetched ==
    /\ (e # Nil /\ ~Deref(e).merged /\ ~DependentConstraint) =>
        /\ Count("GetBug") <= 1
        /\ pc # "GetDependent"
        /\ verdict # Nil => ChecksRecorded \cap DependentChecks = {}
    /\ (Judged /\ DependentConstraint) =>
        /\ "hasDependents" \in ChecksRecorded <=> Deref(bug).DependsOn # << >>
        /\ "hasDependents" \in ChecksRecorded =>
            EntriesFor(Deref(verdict).validations, "hasDependents", Deref(bug).ID) = 1

\* A valid bug with dependencies, under a policy with no dependent
\* constraint: its verdict says nothing about dependents.
C32_DependenciesNotRecorded ==
    /\ Judged
    /\ ~DependentConstraint
    /\ Len(Deref(bug).DependsOn) = MaxDeps
    /\ Deref(verdict).valid
    /\ Deref(verdict).validations # << >>
    /\ ChecksRecorded \cap DependentChecks = {}

\* ------------------------------------------------------------------ C33
\* The calls of handle that fetch a pull request, in the order made.
IsFetch(c) == c.call = "GetPullRequest"
MergeFetches == SelectSeq(HandleCalls, IsFetch)
\* The links of the bug other than the event's own pull request, in the
\* order the tracker listed them.
NotOwn(p) == p # Deref(e).number
OtherLinks == SelectSeq(prs, NotOwn)

\* C33: handleMerge never fetches the pull request of the event; it fetches
\* the other linked pull requests in the order listed, each at most once,
\* and none after the first one it found unmerged (or failed to fetch).
C33_FetchesUpToFirstUnmerged ==
    (e # Nil /\ Deref(e).merged) =>
        /\ Len(MergeFetches) <= Len(OtherLinks)
        /\ \A k \in 1..Len(MergeFetches) :
            /\ MergeFetches[k].arg = OtherLinks[k]
            /\ MergeFetches[k].arg # Deref(e).number
            /\ k < Len(MergeFetches) =>
                (MergeFetches[k].ok /\ pulls[MergeFetches[k].arg].Merged)
        /\ (pc = "MergeGetPullRequest") =>
            \A k \in 1..Len(MergeFetches) :
                MergeFetches[k].ok /\ pulls[MergeFetches[k].arg].Merged

\* The first of two other links was found unmerged and the second was
\* never fetched.
C33_StoppedAtUnmerged ==
    /\ Handled
    /\ Deref(e).merged
    /\ Len(OtherLinks) = 2
    /\ Len(MergeFetches) = 1
    /\ MergeFetches[1].ok
    /\ ~pulls[OtherLinks[1]].Merged

\* ------------------------------------------------------------------ C34
\* The calls the validation path makes before the label stage; one of them
\* failed in this run.
ValidationCalls == {"GetBug", "UpdateBug", "AddPullRequestAsExternalBug", "Query"}
ValidationCallFailed ==
    \E i \in 1..Len(HandleCalls) :
        HandleCalls[i].call \in ValidationCalls /\ ~HandleCalls[i].ok
\* A run whose validation call failed makes no label call.
NoLabelCallAfterFailure ==
    (e # Nil /\ ~Deref(e).merged /\ ValidationCallFailed) =>
        /\ CallNames(calls) \cap LabelCalls = {}
        /\ pc \in {"CreateComment", "done"}
\* The labels of the pull request change in a label write alone.
LabelsChangeInLabelWrites ==
    labels' # labels =>
        /\ pc \in {"ValidBugLabel", "InvalidBugLabel"}
        /\ calls'[Len(calls')].call \in {"AddLabel", "RemoveLabel"}

\* C34: in the validation path, when GetBug on the referenced bug or on a
\* dependent, UpdateBug, AddPullRequestAsExternalBug or the directory query
\* fails, the run makes no GetIssueLabels, AddLabel or RemoveLabel call, so
\* the labels stay as they were before the event.
C34_FailureLeavesLabels ==
    /\ []NoLabelCallAfterFailure
    /\ [][LabelsChangeInLabelWrites]_vars

\* The bug was valid, linking the pull request failed, and the pull
\* request still carries the invalid bug label alone.
C34_StaleLabelsAfterFailure ==
    /\ Handled
    /\ verdict # Nil
    /\ Deref(verdict).valid
    /\ \E i \in CallsNamed("AddPullRequestAsExternalBug") : ~calls[i].ok
    /\ labels = {InvalidBug}

\* ------------------------------------------------------------------ C35
\* The writes on the tracker, and the place of each call in handle's order.
TrackerWrites == {"UpdateBug", "AddPullRequestAsExternalBug"}
Stage(name) ==
    CASE name = "GetBug" -> 0
      [] name = "UpdateBug" -> 1
      [] name = "AddPullRequestAsExternalBug" -> 2
      [] name = "Query" -> 3
      [] name \in LabelCalls -> 4
      [] name = "CreateComment" -> 5
      [] OTHER -> 6

\* C35: in the validation path UpdateBug and AddPullRequestAsExternalBug
\* are called only on a valid verdict, each at most once, and the calls
\* come in the order UpdateBug, AddPullRequestAsExternalBug, label reads
\* and writes, comment; an invalid verdict causes no write on the tracker.
C35_WritesOnlyWhenValidInOrder ==
    (e # Nil /\ ~Deref(e).merged) =>
        /\ CallNames(HandleCalls) \cap TrackerWrites # {} =>
            (verdict # Nil /\ Deref(verdict).valid)
        /\ pc \in TrackerWrites => (verdict # Nil /\ Deref(verdict).valid)
        /\ \A i, j \in 1..Len(HandleCalls) :
            i < j => Stage(HandleCalls[i].call) <= Stage(HandleCalls[j].call)
        /\ \A name \in TrackerWrites \cup {"CreateComment"} : Count(name) <= 1
        /\ \A i \in CallsNamed("UpdateBug") :
            options.StateAfterValidation # Nil
                /\ calls[i].arg.Status = Deref(options.StateAfterValidation).Status

\* A run made every kind of call, in handle's order.
C35_FullSequence ==
    /\ Handled
    /\ ~Deref(e).merged
    /\ AllCallsOk
    /\ {"UpdateBug", "AddPullRequestAsExternalBug", "Query", "GetIssueLabels",
        "AddLabel", "RemoveLabel", "CreateComment"} \subseteq CallNames(calls)

\* ------------------------------------------------------------------ C36
\* The bugs handle asked the tracker for, in the order asked.
IsGetBug(c) == c.call = "GetBug"
GetBugCalls == SelectSeq(HandleCalls, IsGetBug)
\* The bugs handle has to ask for: the referenced one, then its
\* dependencies when the policy constrains them.
BugsToFetch ==
    <<Deref(e).bugId>> \o (IF DependentConstraint THEN Deref(bug).DependsOn ELSE << >>)
\* A fetch of a dependency failed.
DependentFetchFailed ==
    Len(GetBugCalls) > 1 /\ ~GetBugCalls[Len(GetBugCalls)].ok

\* C36: handle fetches the dependencies of the bug only under a policy with
\* a dependent-state or dependent-target-release constraint.  Without one it
\* makes the one GetBug call for the referenced bug and validates against an
\* empty list of dependents; with one it fetches the dependencies in the
\* order of DependsOn, validates once it has them all, and stops at the
\* first fetch that fails, with one error comment and no verdict.
C36_DependenciesFetchedOnlyWhenConstrained ==
    (e # Nil /\ ~Deref(e).merged /\ bug # Nil) =>
        /\ Len(GetBugCalls) <= Len(BugsToFetch)
        /\ \A i \in 1..Len(GetBugCalls) :
            /\ GetBugCalls[i].arg = BugsToFetch[i]
            /\ i < Len(GetBugCalls) => GetBugCalls[i].ok
        /\ ~DependentConstraint =>
            /\ Len(GetBugCalls) = 1
            /\ pc # "GetDependent"
            /\ verdict # Nil
            /\ ChecksRecorded \cap DependentChecks = {}
        /\ verdict # Nil =>
            /\ Len(GetBugCalls) = Len(BugsToFetch)
            /\ GetBugCalls[Len(GetBugCalls)].ok
        /\ DependentFetchFailed =>
            /\ verdict = Nil
            /\ pc \in {"CreateComment", "done"}
            /\ HandleCalls[Len(GetBugCalls)].call = "GetBug"
            /\ Len(HandleCalls) <= Len(GetBugCalls) + 1
            /\ pc = "done" =>
                /\ Len(HandleCalls) = Len(GetBugCalls) + 1
                /\ HandleCalls[Len(HandleCalls)].call = "CreateComment"
                /\ HandleCalls[Len(HandleCalls)].arg
                    = formatError("searching for dependent bug")

\* The fetch of the last dependency of a bug failed, after the others
\* succeeded: the run ended with the error comment.
C36_LastDependencyFetchFailed ==
    /\ Handled
    /\ ~Deref(e).merged
    /\ bug # Nil
    /\ options.DependentBugStates = Nil
    /\ options.DependentBugTargetRelease # Nil
    /\ Len(GetBugCalls) = MaxDeps + 1
    /\ DependentFetchFailed
    /\ verdict = Nil

\* ------------------------------------------------------------------ C37
\* The tracker lists no link to the pull request of the event, and every
\* pull request it lists is merged.
OwnLinkMissing == \A i \in 1..Len(prs) : prs[i] # Deref(e).number
OthersAllMerged == \A i \in 1..Len(OtherLinks) : pulls[OtherLinks[i]].Merged

\* C37: when the tracker lists no pull request for the bug, or lists only
\* merged pull requests none of which is the one of the event, and no call
\* fails, handleMerge still moves the bug: it calls UpdateBug once, with the
\* post-merge state, and then comments that all pull requests are merged.
C37_UpdatesWithoutOwnLink ==
    (/\ Handled
     /\ Deref(e).merged
     /\ AllCallsOk
     /\ ListReturned
     /\ OwnLinkMissing
     /\ OthersAllMerged) =>
        /\ Count("UpdateBug") = 1
        /\ \A i \in CallsNamed("UpdateBug") :
            /\ calls[i].arg = Deref(options.StateAfterMerge)
            /\ i = Len(calls) - 1
        /\ Len(MergeFetches) = Len(prs)
        /\ calls[Len(calls)].call = "CreateComment"
        /\ calls[Len(calls)].arg.kind = "allMerged"
        /\ tracker = Deref(options.StateAfterMerge)

\* The tracker listed no pull request at all for a bug in an allowed state,
\* and the bug was moved.
C37_EmptyListMoved ==
    /\ Handled
    /\ Deref(e).merged
    /\ AllCallsOk
    /\ ListReturned
    /\ prs = << >>
    /\ CallsNamed("GetBug") # {}
    /\ Count("UpdateBug") = 1
    /\ tracker = Modified

\* ------------------------------------------------------------------ C40
\* The comments of the run that carry an assignment directive.
AssigningComments ==
    {i \in CallsNamed("CreateComment") : calls[i].arg.assign # Nil}

\* C40: a run issues the directory query at most once, and only for an
\* event with assign set that is not merged, on a valid verdict, after
\* calls that all succeeded, for a QA contact with a non-empty email; the
\* response carries an assignment directive only after a query that
\* succeeded.
C40_QueryOnlyForAssignOnValidBug ==
    e # Nil =>
        /\ Count("Query") <= 1
        /\ \A i \in CallsNamed("Query") :
            /\ Deref(e).assign
            /\ ~Deref(e).merged
            /\ ~Deref(e).missing
            /\ verdict # Nil /\ Deref(verdict).valid
            /\ \A j \in 1..(i - 1) : calls[j].ok
            /\ calls[i].arg.email # ""
        /\ pc = "Query" =>
            /\ Deref(e).assign /\ ~Deref(e).merged
            /\ verdict # Nil /\ Deref(verdict).valid
            /\ AllCallsOk
        /\ (response.assign # Nil \/ AssigningComments # {}) =>
            \E i \in CallsNamed("Query") : calls[i].ok /\ Len(calls[i].arg.edges) = 1

\* A run queried the directory after an update and a link that succeeded,
\* and its comment assigns the one user found.
C40_QueriedAndAssigned ==
    /\ Handled
    /\ Count("Query") = 1
    /\ Count("UpdateBug") = 1
    /\ Count("AddPullRequestAsExternalBug") = 1
    /\ AssigningComments # {}

\* ------------------------------------------------------------------ C38
\* The bug is in the post-merge state; the bug is in a state the pre-merge
\* check lets through.
Moved == Matches(Deref(options.StateAfterMerge), Bug(1, TRUE, tracker, << >>, Nil))
PassesPreMergeCheck ==
    Guarded => bugMatchesStates(Bug(1, TRUE, tracker, << >>, Nil), AllowedStates(options))

\* C38: when every linked pull request merges, every merge event is handled
\* once its merge shows on the review host, every run makes its calls, no
\* call fails and the bug starts in a state the pre-merge check lets
\* through, the bug is moved to the post-merge state in the end, whatever
\* the order of the merges and of the calls of the runs.
C38_AllMergedMovesTheBug ==
    PassesPreMergeCheck => <>(callFailed \/ Moved)

\* Both links are merged, no call has failed, the bug is moved under a
\* policy with a pre-merge check, and a run that found another link
\* unmerged had posted its comment before.
C38_MovedAfterLastMerge ==
    /\ Len(linked) = MaxLinks
    /\ \A p \in MergePRs : p \in mergedOnHost /\ runs[p].pc = "idle"
    /\ pending = {}
    /\ ~callFailed
    /\ Guarded
    /\ Moved
    /\ issued = 1

\* ------------------------------------------------------------------ C39
\* The runs that started after an UpdateBug to the post-merge state had
\* succeeded.
LateRuns == {p \in MergePRs : runs[p].late}
\* The policy has a pre-merge check, which does not know the post-merge
\* state.
PostMergeUnknown ==
    /\ Guarded
    /\ ~bugMatchesStates(Bug(1, TRUE, Deref(options.StateAfterMerge), << >>, Nil),
                         AllowedStates(options))

\* C39 as stated: under a policy with a pre-merge check that does not know
\* the post-merge state, UpdateBug to the post-merge state is issued at most
\* once over the merge events and refresh comments of the bug.
C39_IssuedAtMostOnce ==
    PostMergeUnknown =>
        issued <= 1

\* C39, amended: under such a policy, once an UpdateBug to the post-merge
\* state has succeeded the bug stays in that state, and every run that
\* starts afterwards fetches the bug, finds its state unrecognized and ends
\* with a comment, without listing the links or updating the bug.
C39_LaterRunsRefuse ==
    PostMergeUnknown =>
        /\ applied => Moved
        /\ \A p \in LateRuns :
            /\ runs[p].pc \in {"MergeGetBug", "CreateComment"}
            /\ runs[p].pc = "CreateComment" =>
                runs[p].response \in {Response("unrecognizedState"), Response("notFound"),
                                      formatError("searching")}

\* A run that started after the bug was moved has refused, and the update
\* was issued once.
C39_LaterRunRefused ==
    /\ Guarded
    /\ issued = 1
    /\ applied
    /\ ~callFailed
    /\ \E p \in LateRuns :
        runs[p].pc = "CreateComment" /\ runs[p].response = Response("unrecognizedState")

====
